---------------------------- MODULE Spec2Model ----------------------------
(***************************************************************************)
(* Andes Controller sequencer program generation                           *)
(* (AndesControllerLib/bkp/5/sequencer.py): ProgramBuilder, Program, Mode, *)
(* State.  The 96-bit memory words are Python integers; they are modelled  *)
(* as unbounded two's complement numbers held as little-endian byte        *)
(* strings, so that shifts, masks and ors are computed bit for bit.        *)
(***************************************************************************)
EXTENDS Integers, Sequences, FiniteSets, TLC

(***************************************************************************)
(* Python integers: [neg, b] is the number whose two's complement has the  *)
(* bytes b (least significant first) followed by 0x00 (neg = FALSE) or     *)
(* 0xFF (neg = TRUE) for ever.  All values are kept normalised.            *)
(***************************************************************************)
Max(x, y) == IF x >= y THEN x ELSE y

Pow2(n) == 2 ^ n

Ext(a) == IF a.neg THEN 255 ELSE 0

ByteAt(a, i) == IF i >= 0 /\ i < Len(a.b) THEN a.b[i + 1] ELSE IF i < 0 THEN 0 ELSE Ext(a)

Norm(neg, bs) ==
  LET ext == IF neg THEN 255 ELSE 0
      keep == {i \in 1..Len(bs) : bs[i] # ext}
      n == IF keep = {} THEN 0 ELSE CHOOSE i \in keep : \A j \in keep : j <= i
  IN [neg |-> neg, b |-> SubSeq(bs, 1, n)]

RECURSIVE IntBytes(_)
IntBytes(n) == IF n = 0 \/ n = -1 THEN <<>> ELSE <<n % 256>> \o IntBytes(n \div 256)

\* A machine-size integer as a Python integer.
PyInt(n) == [neg |-> n < 0, b |-> IntBytes(n)]

RECURSIVE BytesInt(_)
BytesInt(bs) == IF bs = <<>> THEN 0 ELSE Head(bs) + 256 * BytesInt(Tail(bs))

\* The value of a Python integer known to be small and non-negative.
AsInt(a) == BytesInt(a.b)

\* x | y and x & y on nibbles, then on bytes.
NibOr == [x \in 0..15 |-> [y \in 0..15 |->
  Max(x % 2, y % 2) + 2 * Max((x \div 2) % 2, (y \div 2) % 2)
  + 4 * Max((x \div 4) % 2, (y \div 4) % 2) + 8 * Max(x \div 8, y \div 8)]]

NibAnd == [x \in 0..15 |-> [y \in 0..15 |-> x + y - NibOr[x][y]]]

OrByte(x, y) == 16 * NibOr[x \div 16][y \div 16] + NibOr[x % 16][y % 16]

AndByte(x, y) == 16 * NibAnd[x \div 16][y \div 16] + NibAnd[x % 16][y % 16]

\* Python's a | b.
BitOr(a, b) ==
  Norm(a.neg \/ b.neg,
       [i \in 1..Max(Len(a.b), Len(b.b)) |-> OrByte(ByteAt(a, i - 1), ByteAt(b, i - 1))])

\* Python's a & b.
BitAnd(a, b) ==
  Norm(a.neg /\ b.neg,
       [i \in 1..Max(Len(a.b), Len(b.b)) |-> AndByte(ByteAt(a, i - 1), ByteAt(b, i - 1))])

\* Python's a << n.
Shl(a, n) ==
  LET q == n \div 8
      r == n % 8
  IN Norm(a.neg,
          [i \in 1..(Len(a.b) + q + 1) |->
             IF i - 1 < q THEN 0
             ELSE ((ByteAt(a, i - 1 - q) * Pow2(r)) % 256)
                  + (IF i - 1 - q = 0 THEN 0 ELSE ByteAt(a, i - 2 - q) \div Pow2(8 - r))])

\* Python's a >> n.
Shr(a, n) ==
  LET q == n \div 8
      r == n % 8
  IN Norm(a.neg,
          [i \in 1..Max(Len(a.b) - q, 0) |->
             (ByteAt(a, i - 1 + q) \div Pow2(r))
             + ((ByteAt(a, i + q) * Pow2(8 - r)) % 256)])

\* (code >> lo) & (2^width - 1), for width <= 24.
Field(code, lo, width) == AsInt(BitAnd(Shr(code, lo), PyInt(Pow2(width) - 1)))


(***************************************************************************)
(* Class constants.                                                        *)
(***************************************************************************)
\* ProgramBuilder._max_n_lines
max_n_lines == 1023

\* Mode._invalid_mode
invalid_mode == 1023

\* Mode._max_n_loops
max_n_loops == 65535

\* Mode._max_n_loops_nested
max_n_loops_nested == 65535

\* Mode._max_n_states
max_n_states == 1023

\* State._max_hold_time
max_hold_time == 16777215

\* Python's None, as a mode name or a missing attribute.
None == "None"

\* An exception: which message it is and the values written into the message.
NoError == [kind |-> "none", args |-> <<>>]

ValueError(kind, args) == [kind |-> kind, args |-> args]

(***************************************************************************)
(* State: data (pin values, a Python integer) and hold_time.               *)
(***************************************************************************)
\* State.__init__ testing the hold time against its maximum only.
StateInitErrorNoLower(data, hold_time) ==
  IF hold_time > 16777215
  THEN [kind |-> "hold_time", args |-> <<hold_time, 16777215>>]
  ELSE [kind |-> "none", args |-> <<>>]

\* State.__init__: the error it raises, NoError if it accepts.
StateInitError(data, hold_time) ==
  IF hold_time < 0 \/ hold_time > max_hold_time
  THEN ValueError("hold_time", <<hold_time, max_hold_time>>)
  ELSE NoError

StateInit(data, hold_time) == [data |-> data, hold_time |-> hold_time]

\* State._max_states_length
max_states_length == 64

\* What a constructor call gives: the error it raises or the State it returns.
NoState == StateInit(PyInt(0), 0)

Raises(error) == [raised |-> error, state |-> NoState]

\* State(data, hold_time)
NewState(data, hold_time) ==
  IF StateInitError(data, hold_time) # NoError
  THEN Raises(StateInitError(data, hold_time))
  ELSE [raised |-> NoError, state |-> StateInit(data, hold_time)]

\* State.from_bits: data = data | (bits[ii] << ii) for each ii, where bits are
\* int(bool(bit)) of the values given (numbers here: 0 gives 0, all else 1).
\* The ors of the loop over lo <= ii < hi, grouped in halves.
RECURSIVE BitsData(_, _, _)
BitsData(bs, lo, hi) ==
  IF hi <= lo THEN PyInt(0)
  ELSE IF hi = lo + 1 THEN BitOr(PyInt(0), Shl(PyInt(bs[lo + 1]), lo))
  ELSE BitOr(BitsData(bs, lo, (lo + hi) \div 2), BitsData(bs, (lo + hi) \div 2, hi))

\* State.from_bits (the warning logged for fewer than 64 bits is left out).
from_bits(data_bits, hold_time) ==
  LET bits == [ii \in 1..Len(data_bits) |-> IF data_bits[ii] # 0 THEN 1 ELSE 0]
  IN IF Len(bits) > max_states_length
     THEN Raises(ValueError("bits", <<Len(bits), max_states_length>>))
     ELSE NewState(BitsData(bits, 0, Len(bits)), hold_time)

\* Python's list index: a negative one counts from the end.
ListIndex(length, i) == IF i < 0 THEN length + i ELSE i

\* from_labels setting the bit of every name it is given, whatever its value.
from_labelsSetsOne(labels, named_bits, hold_time) ==
  IF \E k \in DOMAIN named_bits : k \notin DOMAIN labels
  THEN Raises([kind |-> "KeyError", args |-> <<>>])
  ELSE from_bits([ii \in 1..max_states_length |->
                    IF \E k \in DOMAIN named_bits : labels[k] = ii - 1 THEN 1 ELSE 0],
                 hold_time)

\* State.from_labels: bits[labels[k]] = named_bits[k] for each k of named_bits
\* on a list of 64 zeros (names that share an address: one of them stays, which
\* one is the order of the dict's keys).
from_labels(labels, named_bits, hold_time) ==
  IF \E k \in DOMAIN named_bits : k \notin DOMAIN labels
  THEN Raises([kind |-> "KeyError", args |-> <<>>])
  ELSE IF \E k \in DOMAIN named_bits :
            ListIndex(max_states_length, labels[k]) \notin 0..(max_states_length - 1)
  THEN Raises([kind |-> "IndexError", args |-> <<>>])
  ELSE LET At(a) == {k \in DOMAIN named_bits : ListIndex(max_states_length, labels[k]) = a}
           bits == [ii \in 1..max_states_length |->
                      IF At(ii - 1) = {} THEN 0 ELSE named_bits[CHOOSE k \in At(ii - 1) : TRUE]]
       IN from_bits(bits, hold_time)

\* The loop of from_labels_array over range(length): the states made so far,
\* ended by the first from_labels that raises.
RECURSIVE LabelsArrayLoop(_, _, _, _)
LabelsArrayLoop(labels, named_bits, hold_times, ii) ==
  IF ii = 0 THEN [raised |-> NoError, states |-> <<>>]
  ELSE LET before == LabelsArrayLoop(labels, named_bits, hold_times, ii - 1)
           r == from_labels(labels, [k \in DOMAIN named_bits |-> named_bits[k][ii]],
                            hold_times[ii])
       IN IF before.raised # NoError THEN before
          ELSE IF r.raised # NoError THEN [raised |-> r.raised, states |-> <<>>]
          ELSE [raised |-> NoError, states |-> Append(before.states, r.state)]

\* from_labels_array without the test of the lengths: a tuple that is too
\* long is read up to length, one that is too short ends in an IndexError.
from_labels_arrayNoLengthTest(labels, named_bits, hold_times, first) ==
  IF \E k \in DOMAIN named_bits : Len(named_bits[k]) < Len(hold_times)
  THEN [raised |-> [kind |-> "IndexError", args |-> <<>>], states |-> <<>>]
  ELSE LabelsArrayLoop(labels, named_bits, hold_times, Len(hold_times))

\* State.from_labels_array; first is the name whose length differs that the
\* loop over named_bits.keys() meets first (None when no length differs).
from_labels_array(labels, named_bits, hold_times, first) ==
  LET length == Len(hold_times)
  IN IF first # None
     THEN [raised |-> ValueError("length", <<first, Len(named_bits[first]), length>>),
           states |-> <<>>]
     ELSE LabelsArrayLoop(labels, named_bits, hold_times, length)

\* The loop of Labels.__init__ over keys, the order of labels.keys(): the
\* addresses seen and the names whose address had been seen before them.
RECURSIVE LabelsScan(_, _, _)
LabelsScan(labels, keys, n) ==
  IF n = 0 THEN [seen_values |-> {}, repeated_keys |-> <<>>]
  ELSE LET before == LabelsScan(labels, keys, n - 1)
           v == labels[keys[n]]
       IN IF v \in before.seen_values
          THEN [before EXCEPT !.repeated_keys = Append(@, keys[n])]
          ELSE [before EXCEPT !.seen_values = @ \cup {v}]

\* Labels.__init__
LabelsInit(labels, keys) ==
  LET repeated_keys == LabelsScan(labels, keys, Len(keys)).repeated_keys
  IN IF Len(repeated_keys) > 0
     THEN [raised |-> ValueError("repeated", [i \in 1..Len(repeated_keys) |->
                         <<repeated_keys[i], labels[repeated_keys[i]]>>]),
           labels |-> <<>>]
     ELSE [raised |-> NoError, labels |-> labels]

\* State.get_value_of_address
get_value_of_address(s, address) == AsInt(BitAnd(Shr(s.data, address), PyInt(1)))

\* State.get_code
StateGetCode(s) == BitOr(Shl(s.data, 24), PyInt(s.hold_time))

\* 0x7FFFFFFF80000000, the mask of State.format_code.
FormatDataMask == [neg |-> FALSE, b |-> <<0, 0, 0, 128, 255, 255, 255, 127>>]

\* State.format_code without labels: the 32 pin values and the hold time it
\* reads from the code and writes out, pin 0 first.
StateFormatCode(code) ==
  LET data == Shr(BitAnd(code, FormatDataMask), 31)
      time == AsInt(BitAnd(code, PyInt(16777215)))
  IN [pins |-> [ii \in 1..32 |-> AsInt(BitAnd(Shr(data, ii - 1), PyInt(1)))],
      time |-> time]

(***************************************************************************)
(* Mode.  parent_mode_name = None stands for the attribute not being set   *)
(* (the mode is not nested); nested_loops is then not set either (0 here). *)
(***************************************************************************)
\* Mode.__init__: the error it raises, NoError if it accepts.  A nested_loops
\* of 0 stands for the default None as well: both are false for "not".
ModeInitError(name, n_loops, next_mode_name, parent_mode_name, nested_loops) ==
  IF n_loops > max_n_loops
  THEN ValueError("n_loops", <<n_loops, max_n_loops>>)
  ELSE IF parent_mode_name # None /\ nested_loops = 0
  THEN ValueError("nested_loops missing", <<>>)
  ELSE IF parent_mode_name # None /\ nested_loops > max_n_loops_nested
  THEN ValueError("nested_loops", <<nested_loops, max_n_loops_nested>>)
  ELSE NoError

ModeInit(name, n_loops, next_mode_name, parent_mode_name, nested_loops) ==
  [name |-> name,
   n_loops |-> n_loops,
   next_mode_name |-> next_mode_name,
   parent_mode_name |-> parent_mode_name,
   nested_loops |-> IF parent_mode_name # None THEN nested_loops ELSE 0,
   states |-> <<>>]

\* add_state with room for one state more than the limit.
add_stateOverLimit(m, state) ==
  IF Len(m.states) > max_n_states
  THEN [raised |-> ValueError("states", <<max_n_states>>), mode |-> m]
  ELSE [raised |-> NoError, mode |-> [m EXCEPT !.states = Append(@, state)]]

\* Mode.add_state: the error it raises and the mode as it leaves it.
add_state(m, state) ==
  IF Len(m.states) >= max_n_states
  THEN [raised |-> ValueError("states", <<max_n_states>>), mode |-> m]
  ELSE [raised |-> NoError, mode |-> [m EXCEPT !.states = Append(@, state)]]

\* add_states adding all the states or none of them.
add_statesAllOrNothing(m, states) ==
  IF Len(m.states) + Len(states) > max_n_states
  THEN [raised |-> ValueError("states", <<max_n_states>>), mode |-> m]
  ELSE [raised |-> NoError, mode |-> [m EXCEPT !.states = @ \o states]]

\* Mode.add_states: add_state for each state in turn, until one raises.
RECURSIVE add_states(_, _)
add_states(m, states) ==
  IF states = <<>> THEN [raised |-> NoError, mode |-> m]
  ELSE IF add_state(m, Head(states)).raised # NoError THEN add_state(m, Head(states))
  ELSE add_states(add_state(m, Head(states)).mode, Tail(states))

\* Mode.is_nested
is_nested(m) == m.parent_mode_name # None

\* Mode.get_code with the addresses of the next and parent modes taken one
\* word too far (the word after the header).
ModeGetCodePastHeader(m, address_cache) ==
  LET nested == IF is_nested(m) THEN 1 ELSE 0
      nested_loops == IF is_nested(m) THEN m.nested_loops ELSE 0
      next_address == IF m.next_mode_name # None
                      THEN address_cache[m.next_mode_name] + 1 ELSE invalid_mode
      parent_address == IF is_nested(m)
                        THEN address_cache[m.parent_mode_name] + 1 ELSE invalid_mode
      c0 == PyInt(0)
      c1 == BitOr(c0, PyInt(parent_address))
      c2 == BitOr(c1, Shl(PyInt(next_address), 16))
      c3 == BitOr(c2, Shl(PyInt(nested), 32))
      c4 == BitOr(c3, Shl(PyInt(nested_loops), 40))
      c5 == BitOr(c4, Shl(PyInt(m.n_loops), 56))
      c6 == BitOr(c5, Shl(PyInt(Len(m.states)), 72))
  IN BitOr(c6, Shl(PyInt(128), 88))

\* Mode.get_code
ModeGetCode(m, address_cache) ==
  LET nested == IF is_nested(m) THEN 1 ELSE 0
      nested_loops == IF is_nested(m) THEN m.nested_loops ELSE 0
      next_address == IF m.next_mode_name # None
                      THEN address_cache[m.next_mode_name] ELSE invalid_mode
      parent_address == IF is_nested(m)
                        THEN address_cache[m.parent_mode_name] ELSE invalid_mode
      c0 == PyInt(0)
      c1 == BitOr(c0, PyInt(parent_address))
      c2 == BitOr(c1, Shl(PyInt(next_address), 16))
      c3 == BitOr(c2, Shl(PyInt(nested), 32))
      c4 == BitOr(c3, Shl(PyInt(nested_loops), 40))
      c5 == BitOr(c4, Shl(PyInt(m.n_loops), 56))
      c6 == BitOr(c5, Shl(PyInt(Len(m.states)), 72))
  IN BitOr(c6, Shl(PyInt(128), 88))

\* The name format_code shows for an address: a key of addresses that has it
\* (the address maps of programs give each name its own address).
AddressLabel(addresses, address) ==
  IF \E k \in DOMAIN addresses : addresses[k] = address
  THEN CHOOSE k \in DOMAIN addresses : addresses[k] = address
  ELSE "<unknown>"

\* Mode.format_code: the six fields it reads from the code and writes out in
\* decimal; with a non-empty addresses the two addresses are written as the
\* labels, without it as the numbers (the labels are then not used).
ModeFormatCode(code, addresses) ==
  LET parent_address == Field(code, 0, 16)
      next_address == Field(code, 16, 16)
  IN [n_states |-> Field(code, 72, 16),
      n_loops |-> Field(code, 56, 16),
      nested_loops |-> Field(code, 40, 16),
      is_nested |-> Field(code, 32, 8),
      next_address |-> next_address,
      parent_address |-> parent_address,
      next_label |-> IF addresses = <<>> THEN "" ELSE AddressLabel(addresses, next_address),
      parent_label |-> IF addresses = <<>> THEN ""
                       ELSE AddressLabel(addresses, parent_address)]

(***************************************************************************)
(* ProgramBuilder.                                                         *)
(***************************************************************************)
\* ProgramBuilder.mode_names
mode_names(ms) == [i \in 1..Len(ms) |-> ms[i].name]

\* ProgramBuilder.get_mode finds a mode (otherwise it raises).
HasMode(ms, name) == \E i \in 1..Len(ms) : ms[i].name = name

\* ProgramBuilder.get_mode: the first mode of that name.
get_mode(ms, name) ==
  ms[CHOOSE i \in 1..Len(ms) :
       ms[i].name = name /\ \A j \in 1..(i - 1) : ms[j].name # name]

DictPut(d, k, v) == [x \in (DOMAIN d) \cup {k} |-> IF x = k THEN v ELSE d[x]]

\* The address pass without the word of the header.
RECURSIVE AddressLoopNoHeader(_, _, _, _)
AddressLoopNoHeader(ms, i, current_address, address_cache) ==
  IF i > Len(ms) THEN address_cache
  ELSE AddressLoopNoHeader(ms, i + 1, current_address + Len(ms[i].states),
                           DictPut(address_cache, ms[i].name, current_address))

\* build(): the address cache, one pass over the modes.
RECURSIVE AddressLoop(_, _, _, _)
AddressLoop(ms, i, current_address, address_cache) ==
  IF i > Len(ms) THEN address_cache
  ELSE AddressLoop(ms, i + 1, current_address + Len(ms[i].states) + 1,
                   DictPut(address_cache, ms[i].name, current_address))

AddressCache(ms) == AddressLoop(ms, 1, 0, <<>>)

Issue(kind, mode, ref) == [kind |-> kind, mode |-> mode, ref |-> ref]

\* The checks of one mode without the test of the parent's nesting.
ModeIssuesNoDouble(ms, m) ==
  (IF HasMode(ms, m.next_mode_name) THEN <<>>
   ELSE <<Issue("next", m.name, m.next_mode_name)>>)
  \o
  (IF ~is_nested(m) THEN <<>>
   ELSE IF ~HasMode(ms, m.parent_mode_name)
   THEN <<Issue("parent", m.name, m.parent_mode_name)>>
   ELSE <<>>)

\* build(): the messages one mode adds to the error log.
ModeIssues(ms, m) ==
  (IF HasMode(ms, m.next_mode_name) THEN <<>>
   ELSE <<Issue("next", m.name, m.next_mode_name)>>)
  \o
  (IF ~is_nested(m) THEN <<>>
   ELSE IF ~HasMode(ms, m.parent_mode_name)
   THEN <<Issue("parent", m.name, m.parent_mode_name)>>
   ELSE IF is_nested(get_mode(ms, m.parent_mode_name))
   THEN <<Issue("double", m.name, m.parent_mode_name)>>
   ELSE <<>>)

\* The consistency checks stopping at the first mode that has an issue.
RECURSIVE ConsistencyLoopFailFast(_, _)
ConsistencyLoopFailFast(ms, i) ==
  IF i > Len(ms) THEN <<>>
  ELSE IF ModeIssues(ms, ms[i]) # <<>> THEN ModeIssues(ms, ms[i])
  ELSE ConsistencyLoopFailFast(ms, i + 1)

\* build(): the consistency checks, over all modes in order.
RECURSIVE ConsistencyLoop(_, _)
ConsistencyLoop(ms, i) ==
  IF i > Len(ms) THEN <<>> ELSE ModeIssues(ms, ms[i]) \o ConsistencyLoop(ms, i + 1)

ConsistencyChecks(ms) == ConsistencyLoop(ms, 1)

\* The words of one mode with the header after the states.
ModeCodesHeaderLast(m, address_cache) ==
  [j \in 1..Len(m.states) |-> StateGetCode(m.states[j])] \o <<ModeGetCode(m, address_cache)>>

\* build(): the words of one mode, its header and then its states.
ModeCodes(m, address_cache) ==
  <<ModeGetCode(m, address_cache)>> \o [j \in 1..Len(m.states) |-> StateGetCode(m.states[j])]

RECURSIVE CodesLoop(_, _, _)
CodesLoop(ms, i, address_cache) ==
  IF i > Len(ms) THEN <<>>
  ELSE ModeCodes(ms[i], address_cache) \o CodesLoop(ms, i + 1, address_cache)

Codes(ms, address_cache) == CodesLoop(ms, 1, address_cache)

\* build(): the program is read through codes and address_map; its modes
\* attribute is the builder's own list, not a copy.
NoProgram == [built |-> FALSE, codes |-> <<>>, address_map |-> <<>>]

Program(codes, mode_addresses) == [built |-> TRUE, codes |-> codes, address_map |-> mode_addresses]

\* Program.as_str without labels: for each word the formatter it is given to
\* and what that formatter reads from it; the lines are joined in this order.
as_str(p) ==
  [k \in 1..Len(p.codes) |->
     IF Shr(p.codes[k], 63) = PyInt(1)
     THEN [formatter |-> "Mode", text |-> ModeFormatCode(p.codes[k], p.address_map)]
     ELSE [formatter |-> "State", text |-> StateFormatCode(p.codes[k])]]

\* build() refusing a program that fills the memory exactly.
buildFullRefused(ms) ==
  LET address_cache == AddressCache(ms)
      issues == ConsistencyChecks(ms)
      codes == Codes(ms, address_cache)
  IN IF issues # <<>>
     THEN [raised |-> ValueError("consistency", <<>>), log |-> issues, program |-> NoProgram]
     ELSE IF Len(codes) >= max_n_lines
     THEN [raised |-> ValueError("memory", <<Len(codes), max_n_lines>>), log |-> issues,
           program |-> NoProgram]
     ELSE [raised |-> NoError, log |-> issues, program |-> Program(codes, address_cache)]

\* build() taking one word more than the memory has.
buildOneMore(ms) ==
  LET address_cache == AddressCache(ms)
      issues == ConsistencyChecks(ms)
      codes == Codes(ms, address_cache)
  IN IF issues # <<>>
     THEN [raised |-> ValueError("consistency", <<>>), log |-> issues, program |-> NoProgram]
     ELSE IF Len(codes) > max_n_lines + 1
     THEN [raised |-> ValueError("memory", <<Len(codes), max_n_lines>>), log |-> issues,
           program |-> NoProgram]
     ELSE [raised |-> NoError, log |-> issues, program |-> Program(codes, address_cache)]

\* ProgramBuilder.build: what it logs, what it raises and what it returns.
build(ms) ==
  LET address_cache == AddressCache(ms)
      issues == ConsistencyChecks(ms)
      codes == Codes(ms, address_cache)
  IN IF issues # <<>>
     THEN [raised |-> ValueError("consistency", <<>>), log |-> issues, program |-> NoProgram]
     ELSE IF Len(codes) > max_n_lines
     THEN [raised |-> ValueError("memory", <<Len(codes), max_n_lines>>), log |-> issues,
           program |-> NoProgram]
     ELSE [raised |-> NoError, log |-> issues, program |-> Program(codes, address_cache)]

(***************************************************************************)
(* Inputs and bounds of the exploration.                                   *)
(***************************************************************************)
\* Names modes are registered under; "M3" is referred to and never registered.
Names == {"M1", "M2"}

\* <<n_loops, next_mode_name>> of the modes constructed.
LoopNextIn == {<<3, "M2">>, <<3, "M3">>, <<0, None>>}

\* <<parent_mode_name, nested_loops>> of the modes constructed.
NestingIn == {<<None, 0>>, <<"M1", 2>>, <<"M2", 2>>}

\* <<data, hold_time>> of the states constructed.
StateIn == {<<PyInt(5), 10>>, <<PyInt(6), 16777215>>}

\* Most states a mode is given one by one.
MaxStates == 2

(***************************************************************************)
(* The builder in use: modes is ProgramBuilder.modes (and Program.modes),  *)
(* program the Program the last successful build() returned, raised the    *)
(* exception of the last call, errlog what the last build() logged.        *)
(***************************************************************************)
VARIABLES modes, program, raised, errlog, bench

vars == <<modes, program, raised, errlog, bench>>

\* bench: one State or Mode constructed on its own, and what get_code and
\* format_code returned for it.
NoCode == PyInt(0)

NoText == [pins |-> <<>>, time |-> 0]

NoBench ==
  [obj |-> "none", state |-> StateInit(PyInt(0), 0), mode |-> ModeInit(None, 0, None, None, 0),
   address_cache |-> <<>>, step |-> "new", code |-> NoCode, text |-> NoText]

StateBench(s) == [NoBench EXCEPT !.obj = "State", !.state = s]

ModeBench(m, address_cache) ==
  [NoBench EXCEPT !.obj = "Mode", !.mode = m, !.address_cache = address_cache]

Init ==
  /\ modes = <<>>
  /\ program = NoProgram
  /\ raised = NoError
  /\ errlog = <<>>
  /\ bench = NoBench

\* add_mode without the test of the name.
AddModeNoCheck(name, n_loops, next_mode_name, parent_mode_name, nested_loops) ==
  /\ raised' = NoError
  /\ modes' = Append(modes, ModeInit(name, n_loops, next_mode_name, parent_mode_name,
                                     nested_loops))
  /\ errlog' = <<>>
  /\ UNCHANGED <<program, bench>>

\* builder.add_mode(Mode(name, n_loops, next_mode_name, parent_mode_name, nested_loops))
AddMode(name, n_loops, next_mode_name, parent_mode_name, nested_loops) ==
  LET e == ModeInitError(name, n_loops, next_mode_name, parent_mode_name, nested_loops)
      m == ModeInit(name, n_loops, next_mode_name, parent_mode_name, nested_loops)
  IN /\ IF e # NoError
        THEN raised' = e /\ modes' = modes
        ELSE IF \E i \in 1..Len(modes) : mode_names(modes)[i] = name
        THEN raised' = ValueError("mode name", <<name>>) /\ modes' = modes
        ELSE raised' = NoError /\ modes' = Append(modes, m)
     /\ errlog' = <<>>
     /\ UNCHANGED <<program, bench>>

\* modes[i].add_state(State(data, hold_time))
AddState(i, data, hold_time) ==
  LET e == StateInitError(data, hold_time)
  IN /\ IF e # NoError
        THEN raised' = e /\ modes' = modes
        ELSE IF Len(modes[i].states) >= max_n_states
        THEN raised' = ValueError("states", <<max_n_states>>) /\ modes' = modes
        ELSE /\ raised' = NoError
             /\ modes' = [modes EXCEPT ![i].states = Append(@, StateInit(data, hold_time))]
     /\ errlog' = <<>>
     /\ UNCHANGED <<program, bench>>

\* modes[i].add_states(states), the states constructed beforehand
AddStates(i, states) ==
  /\ raised' = add_states(modes[i], states).raised
  /\ modes' = [modes EXCEPT ![i] = add_states(modes[i], states).mode]
  /\ errlog' = <<>>
  /\ UNCHANGED <<program, bench>>

\* program = builder.build()
Build ==
  LET r == build(modes)
  IN /\ raised' = r.raised
     /\ errlog' = r.log
     /\ program' = IF r.raised = NoError THEN r.program ELSE program
     /\ UNCHANGED <<modes, bench>>

\* text = program.as_str()
AsStr ==
  /\ program.built
  /\ bench' = [NoBench EXCEPT !.obj = "Program", !.step = "formatted", !.text = as_str(program)]
  /\ UNCHANGED <<modes, program, raised, errlog>>

\* One builder is filled and then compiled: modes and states are added until
\* a build() succeeds; a failed build() can be followed by more modes.
Next ==
  \/ \E name \in Names, ln \in LoopNextIn, pn \in NestingIn :
       ~program.built /\ AddMode(name, ln[1], ln[2], pn[1], pn[2])
  \/ \E i \in 1..Len(modes), s \in StateIn :
       ~program.built /\ Len(modes[i].states) < MaxStates /\ AddState(i, s[1], s[2])
  \/ Build
  \/ AsStr

Spec == Init /\ [][Next]_vars

(***************************************************************************)
(* The builder and its modes used on after build() has returned a program: *)
(* the program holds its own codes and address_map, and as modes the list  *)
(* of the builder itself (build() passes self.modes, Program.__init__      *)
(* keeps the reference).                                                   *)
(***************************************************************************)
\* Program.mode_names of the compiled program: the names in its modes, which
\* is the builder's list.
ProgramModeNames == mode_names(modes)

\* Program.get_address(name) finds the name.
HasAddress(name) == name \in DOMAIN program.address_map

NextKept ==
  \/ \E name \in Names, ln \in LoopNextIn :
       AddMode(name, ln[1], ln[2], None, 0)
  \/ \E i \in 1..Len(modes), s \in StateIn :
       Len(modes[i].states) < MaxStates /\ AddState(i, s[1], s[2])
  \/ \E i \in 1..Len(modes) :
       /\ Len(modes[i].states) + 2 <= MaxStates
       /\ AddStates(i, <<StateInit(PyInt(5), 10), StateInit(PyInt(6), 10)>>)
  \/ ~program.built /\ Build

SpecKept == Init /\ [][NextKept]_vars

(***************************************************************************)
(* The builder at its limits: a first mode that is nearly full, a second   *)
(* small one, and field values at the ends of what the constructors take.  *)
(***************************************************************************)
\* States the first mode lacks to its limit when the exploration starts.
CapSlack == 4

\* 2^64, one bit more than the 64 pins.
WideData == Shl(PyInt(1), 64)

CapLoopNextIn == {<<3, "M1">>, <<3, "M2">>, <<0, None>>, <<-1, "M1">>, <<65536, "M1">>}

\* The states given to add_states.
CapStatesIn == <<StateInit(PyInt(6), 10), StateInit(PyInt(5), 10)>>

CapStateIn == {<<PyInt(5), 10>>, <<WideData, 10>>, <<PyInt(5), 16777216>>, <<PyInt(5), -1>>}

FullMode(n) ==
  [ModeInit("M1", 3, "M1", None, 0) EXCEPT
     !.states = [j \in 1..n |-> StateInit(PyInt(5), 10)]]

InitCap ==
  /\ modes = <<FullMode(max_n_states - CapSlack)>>
  /\ program = NoProgram
  /\ raised = NoError
  /\ errlog = <<>>
  /\ bench = NoBench

NextCap ==
  \/ \E ln \in CapLoopNextIn :
       ~program.built /\ AddMode("M2", ln[1], ln[2], None, 0)
  \/ ~program.built /\ AddState(1, PyInt(5), 10)
  \/ /\ ~program.built /\ Len(modes[1].states) >= max_n_states - 2
     /\ AddStates(1, CapStatesIn)
  \/ \E s \in CapStateIn :
       /\ ~program.built /\ Len(modes) = 2 /\ Len(modes[2].states) < MaxStates
       /\ AddState(2, s[1], s[2])
  \/ Build

SpecCap == InitCap /\ [][NextCap]_vars

(***************************************************************************)
(* get_code and format_code on single objects.                             *)
(***************************************************************************)
\* 2^64 - 1, all 64 pins set.
AllPins == [neg |-> FALSE, b |-> <<255, 255, 255, 255, 255, 255, 255, 255>>]

BenchDataIn == {PyInt(1), PyInt(5), Shl(PyInt(1), 39), Shl(PyInt(3), 62), AllPins, WideData}

BenchHoldIn == {-1, 0, 10, 16777215, 16777216}

BenchNLoopsIn == {-1, 0, 3, 65535, 65536}

BenchNextIn == {None, "M1", "M2"}

BenchNestingIn == {<<None, 0>>, <<"M1", 2>>, <<"M2", 65535>>, <<"M2", -1>>, <<"M1", 65536>>}

BenchNStatesIn == {0, 2, 1023}

BenchAddressesIn ==
  {[n \in {"M1", "M2"} |-> IF n = "M1" THEN 0 ELSE 3],
   [n \in {"M1", "M2"} |-> IF n = "M1" THEN 4 ELSE 0]}

\* The states and modes the constructors return for these arguments.
BenchStates ==
  {StateInit(d, h) : <<d, h>> \in
     {x \in BenchDataIn \X BenchHoldIn : StateInitError(x[1], x[2]) = NoError}}

BenchModes ==
  {[ModeInit("M1", x[1], x[2], x[3][1], x[3][2]) EXCEPT
      !.states = [j \in 1..x[4] |-> StateInit(PyInt(5), 10)]] :
   x \in {y \in BenchNLoopsIn \X BenchNextIn \X BenchNestingIn \X BenchNStatesIn :
            ModeInitError("M1", y[1], y[2], y[3][1], y[3][2]) = NoError}}

\* Arguments of the three ways to construct a State: bit sequences (one of
\* them of 65 bits), labels and named bits (one of them with a name that has
\* no label).
BenchBitsIn == {<<1, 0, 1>>, <<0, 2>>, [ii \in 1..65 |-> 0]}

BenchLabels == [k \in {"A", "B"} |-> IF k = "A" THEN 0 ELSE 1]

\* Labels that reach the last pin.
WideLabels == [k \in {"A", "B", "C"} |-> IF k = "A" THEN 5 ELSE IF k = "B" THEN 63 ELSE 31]

BenchLabelsIn == {BenchLabels, WideLabels}

BenchNamedBitsIn ==
  {[k \in {"A"} |-> 1], [k \in {"A", "B"} |-> IF k = "A" THEN 0 ELSE 1], [k \in {"C"} |-> 1],
   [k \in {"A", "B"} |-> 1]}

\* A constructor call: how the State is made (via), its arguments (those the
\* constructor does not have are empty), and once the call is over (step
\* "returned" or "raised") the State it returned.
StateCall(via, data, data_bits, labels, named_bits, hold_time) ==
  [obj |-> "StateCall", via |-> via, data |-> data, data_bits |-> data_bits,
   labels |-> labels, named_bits |-> named_bits, hold_time |-> hold_time,
   step |-> "args", state |-> NoState]

BenchStateCalls ==
  {StateCall("State", PyInt(5), <<>>, <<>>, <<>>, h) : h \in BenchHoldIn}
  \cup {StateCall("from_bits", PyInt(0), b, <<>>, <<>>, h) : b \in BenchBitsIn, h \in BenchHoldIn}
  \cup {StateCall("from_labels", PyInt(0), <<>>, l, n, h) :
          l \in BenchLabelsIn, n \in BenchNamedBitsIn, h \in BenchHoldIn}

\* Tables of from_labels_array, name by name the values over the states, and
\* the hold times they are given with.
TableOf(a, b) == [k \in {"A", "B"} |-> IF k = "A" THEN a ELSE b]

BenchTablesIn ==
  {TableOf(<<1, 0>>, <<0, 1>>), TableOf(<<1, 0>>, <<1>>), TableOf(<<1, 0>>, <<1, 1, 0>>),
   TableOf(<<1>>, <<>>), TableOf(<<>>, <<>>), TableOf(<<1>>, <<1>>),
   [k \in {"A"} |-> <<1, 0, 1>>], [k \in {"C"} |-> <<1, 1>>]}

BenchHoldTimesIn == {<<10, 20>>, <<10>>, <<>>, <<10, 16777216>>, <<0, 10, 16777215>>}

StatesCall(labels, named_bits, hold_times) ==
  [obj |-> "StatesCall", labels |-> labels, named_bits |-> named_bits,
   hold_times |-> hold_times, step |-> "args", states |-> <<>>]

BenchStatesCalls ==
  {StatesCall(l, n, h) : l \in BenchLabelsIn, n \in BenchTablesIn, h \in BenchHoldTimesIn}

\* Mappings Labels is constructed from: injective ones and ones where two or
\* three names have the same address.
LabelsOf(a, b, c) == [k \in {"A", "B", "C"} |-> IF k = "A" THEN a ELSE IF k = "B" THEN b ELSE c]

BenchMappingsIn ==
  {BenchLabels, WideLabels, TableOf(0, 0), LabelsOf(0, 0, 0), LabelsOf(0, 0, 1),
   LabelsOf(1, 2, 2), LabelsOf(7, 3, 7)}

LabelsCall(labels) ==
  [obj |-> "LabelsCall", mapping |-> labels, step |-> "args", labels |-> <<>>]

\* The orders a dict can give its keys in.
KeyOrders(d) ==
  {keys \in [1..Cardinality(DOMAIN d) -> DOMAIN d] :
     \A i, j \in 1..Cardinality(DOMAIN d) : keys[i] = keys[j] => i = j}

InitCodec ==
  /\ modes = <<>>
  /\ program = NoProgram
  /\ raised = NoError
  /\ errlog = <<>>
  /\ bench \in {StateBench(s) : s \in BenchStates}
               \cup {ModeBench(m, a) : m \in BenchModes, a \in BenchAddressesIn}
               \cup BenchStateCalls \cup BenchStatesCalls
               \cup {LabelsCall(l) : l \in BenchMappingsIn}

\* The call of bench is made and gives r.
Constructed(r) ==
  /\ raised' = r.raised
  /\ bench' = [bench EXCEPT !.step = IF r.raised = NoError THEN "returned" ELSE "raised",
                            !.state = r.state]
  /\ UNCHANGED <<modes, program, errlog>>

\* state = State(data, hold_time)
ConstructState ==
  /\ bench.obj = "StateCall" /\ bench.via = "State" /\ bench.step = "args"
  /\ Constructed(NewState(bench.data, bench.hold_time))

\* state = State.from_bits(data_bits, hold_time)
FromBits ==
  /\ bench.obj = "StateCall" /\ bench.via = "from_bits" /\ bench.step = "args"
  /\ Constructed(from_bits(bench.data_bits, bench.hold_time))

\* state = State.from_labels(labels, named_bits, hold_time)
FromLabels ==
  /\ bench.obj = "StateCall" /\ bench.via = "from_labels" /\ bench.step = "args"
  /\ Constructed(from_labels(bench.labels, bench.named_bits, bench.hold_time))

\* states = State.from_labels_array(labels, named_bits, hold_times)
FromLabelsArray ==
  /\ bench.obj = "StatesCall" /\ bench.step = "args"
  /\ LET differ == {k \in DOMAIN bench.named_bits :
                      Len(bench.named_bits[k]) # Len(bench.hold_times)}
     IN \E first \in (IF differ = {} THEN {None} ELSE differ) :
          LET r == from_labels_array(bench.labels, bench.named_bits, bench.hold_times, first)
          IN /\ raised' = r.raised
             /\ bench' = [bench EXCEPT
                            !.step = IF r.raised = NoError THEN "returned" ELSE "raised",
                            !.states = r.states]
  /\ UNCHANGED <<modes, program, errlog>>

\* labels = Labels(mapping)
ConstructLabels ==
  /\ bench.obj = "LabelsCall" /\ bench.step = "args"
  /\ \E keys \in KeyOrders(bench.mapping) :
       LET r == LabelsInit(bench.mapping, keys)
       IN /\ raised' = r.raised
          /\ bench' = [bench EXCEPT
                         !.step = IF r.raised = NoError THEN "returned" ELSE "raised",
                         !.labels = r.labels]
  /\ UNCHANGED <<modes, program, errlog>>

\* code = state.get_code()
GetCodeState ==
  /\ bench.obj = "State" /\ bench.step = "new"
  /\ bench' = [bench EXCEPT !.step = "coded", !.code = StateGetCode(bench.state)]
  /\ UNCHANGED <<modes, program, raised, errlog>>

\* text = State.format_code(code)
FormatCodeState ==
  /\ bench.obj = "State" /\ bench.step = "coded"
  /\ bench' = [bench EXCEPT !.step = "formatted", !.text = StateFormatCode(bench.code)]
  /\ UNCHANGED <<modes, program, raised, errlog>>

\* code = mode.get_code(address_cache)
GetCodeMode ==
  /\ bench.obj = "Mode" /\ bench.step = "new"
  /\ bench' = [bench EXCEPT !.step = "coded",
                            !.code = ModeGetCode(bench.mode, bench.address_cache)]
  /\ UNCHANGED <<modes, program, raised, errlog>>

\* text = Mode.format_code(code)
FormatCodeMode ==
  /\ bench.obj = "Mode" /\ bench.step = "coded"
  /\ bench' = [bench EXCEPT !.step = "formatted", !.text = ModeFormatCode(bench.code, <<>>)]
  /\ UNCHANGED <<modes, program, raised, errlog>>

NextCodec ==
  \/ GetCodeState
  \/ FormatCodeState
  \/ GetCodeMode
  \/ FormatCodeMode
  \/ ConstructState
  \/ FromBits
  \/ FromLabels
  \/ FromLabelsArray
  \/ ConstructLabels

SpecCodec == InitCodec /\ [][NextCodec]_vars

(***************************************************************************)
(* ByteCode (AndesControllerLib/binary.py): the commands sent over USB.    *)
(* A str of bytes is the sequence of its byte values; the text of          *)
(* as_legacy_file is kept as its lines, each the line number and the words *)
(* that are joined by the word separator.                                  *)
(***************************************************************************)
\* ByteCode._init, 0x029A
init_word == 666

\* Module select codes.
configurator_mod_index == 0

acquisition_mod_index == 1

\* Sub-module select codes.
configurator_powermanag_index == 0

configurator_spivideo_index == 1

configurator_spibiasclocks_index == 2

acquisition_sequencer_index == 0

\* Instruction codes.
configurator_powermanag_enablepower_inst == 1

configurator_powermanag_resetdacs_inst == 2

configurator_spivideo_communicate_inst == 0

configurator_spibiasclocks_communicate_inst == 0

acquisition_sequencer_getimage_inst == 0

acquisition_sequencer_writeseqmem_inst == 1

acquisition_sequencer_enableseq_inst == 2

acquisition_sequencer_disableseq_inst == 3

acquisition_sequencer_writeexpotime_inst == 4

acquisition_sequencer_getpxlsch1_inst == 5

acquisition_sequencer_getpxlsch3_inst == 6

acquisition_sequencer_getdatach1_inst == 7

acquisition_sequencer_getdatach3_inst == 8

acquisition_sequencer_tstseqon_inst == 9

acquisition_sequencer_tstseqoff_inst == 10

\* 0xFFFFFFFF and 0xFFFFFFFF00000000
Mask32 == [neg |-> FALSE, b |-> <<255, 255, 255, 255>>]

MaskHigh32 == [neg |-> FALSE, b |-> <<0, 0, 0, 0, 255, 255, 255, 255>>]

StructError == [kind |-> "struct.error", args |-> <<>>]

\* struct.pack(endianess + 'I', number) and struct.pack(endianess + 'i', number)
\* raise struct.error for a number that does not fit.
PackError(number, signed) ==
  IF signed THEN Shr(number, 31) \notin {PyInt(0), PyInt(-1)}
  ELSE number.neg \/ Shr(number, 32) # PyInt(0)

\* struct.pack(endianess + num_type, number): the four bytes in wire order.
struct_pack(endianess, number) ==
  IF endianess = "<" THEN [i \in 1..4 |-> ByteAt(number, i - 1)]
  ELSE [i \in 1..4 |-> ByteAt(number, 4 - i)]

\* ByteCode.int_to_byte_list: the error it raises, NoError if it returns.
IntToByteListError(number, n_bytes, signed) ==
  IF n_bytes = 4
  THEN IF PackError(number, signed) THEN StructError ELSE NoError
  ELSE IF n_bytes = 8
  THEN IF \/ PackError(Shr(BitAnd(number, MaskHigh32), 32), signed)
          \/ PackError(BitAnd(number, Mask32), signed)
       THEN StructError ELSE NoError
  ELSE ValueError("n_bytes", <<>>)

\* int_to_byte_list with the low half of an 8 byte number packed first.
int_to_byte_listLowFirst(endianess, number, n_bytes, signed) ==
  IF n_bytes = 4 THEN struct_pack(endianess, number)
  ELSE LET number_h == Shr(BitAnd(number, MaskHigh32), 32)
           number_l == BitAnd(number, Mask32)
       IN struct_pack(endianess, number_l) \o struct_pack(endianess, number_h)

\* ByteCode.int_to_byte_list
int_to_byte_list(endianess, number, n_bytes, signed) ==
  IF n_bytes = 4 THEN struct_pack(endianess, number)
  ELSE LET number_h == Shr(BitAnd(number, MaskHigh32), 32)
           number_l == BitAnd(number, Mask32)
       IN struct_pack(endianess, number_h) \o struct_pack(endianess, number_l)

\* ByteCode._header_build, for the codes of this class (all below 2^15).
header_build(header_s, header_i) ==
  AsInt(BitAnd(Shl(PyInt(header_s), 16), Shl(PyInt(65535), 16)))
  + AsInt(BitAnd(PyInt(header_i), PyInt(65535)))

\* ByteCode._return_op: the bytes of the words, one word after the other.
RECURSIVE return_op(_)
return_op(words) == IF words = <<>> THEN <<>> ELSE Head(words) \o return_op(Tail(words))

\* What every operation does with its list of numbers: each is packed with
\* int_to_byte_list(number) and the words are given to _return_op; a number
\* that does not fit in 32 bits stops the operation with struct.error.
Emit(endianess, numbers) ==
  IF \E k \in 1..Len(numbers) : PackError(numbers[k], FALSE)
  THEN [raised |-> StructError, command |-> <<>>]
  ELSE [raised |-> NoError,
        command |-> return_op([k \in 1..Len(numbers) |->
                                 int_to_byte_list(endianess, numbers[k], 4, FALSE)])]

\* ByteCode._only_header_instruction
only_header_instruction(endianess, module_code, header_s, header_i) ==
  Emit(endianess, <<PyInt(init_word), PyInt(module_code), PyInt(1),
                    PyInt(header_build(header_s, header_i))>>)

\* ByteCode.configurator_power_on
configurator_power_on(endianess, pwrOn) ==
  LET pwrState == IF pwrOn THEN 1 ELSE 0
  IN Emit(endianess, <<PyInt(init_word), PyInt(configurator_mod_index), PyInt(2),
                       PyInt(header_build(configurator_powermanag_index,
                                          configurator_powermanag_enablepower_inst)),
                       PyInt(pwrState)>>)

\* ByteCode.dacs_pwr_reset
dacs_pwr_reset(endianess) ==
  only_header_instruction(endianess, configurator_mod_index, configurator_powermanag_index,
                          configurator_powermanag_resetdacs_inst)

\* ((device<<16)&0x00FF0000) + ((polarity<<8)&0x0000FF00) + (nbits&0x000000FF)
SpiSetup(device, polarity, nbits) ==
  AsInt(BitAnd(Shl(PyInt(device), 16), Shl(PyInt(255), 16)))
  + AsInt(BitAnd(Shl(PyInt(polarity), 8), Shl(PyInt(255), 8)))
  + AsInt(BitAnd(PyInt(nbits), PyInt(255)))

\* ByteCode.configurator_spi_video
configurator_spi_video(endianess, device, polarity, nbits, data) ==
  Emit(endianess, <<PyInt(init_word), PyInt(configurator_mod_index), PyInt(3),
                    PyInt(header_build(configurator_spivideo_index,
                                       configurator_spivideo_communicate_inst)),
                    PyInt(SpiSetup(device, polarity, nbits)), data>>)

\* ByteCode.configurator_spi_bias_clocks
configurator_spi_bias_clocks(endianess, device, polarity, nbits, data) ==
  Emit(endianess, <<PyInt(init_word), PyInt(configurator_mod_index), PyInt(3),
                    PyInt(header_build(configurator_spibiasclocks_index,
                                       configurator_spibiasclocks_communicate_inst)),
                    PyInt(SpiSetup(device, polarity, nbits)), data>>)

\* get_image announcing two words.
get_imageCountTwo(endianess, stop_cleaning_mode_dir, get_image_mode_dir, open_shutter) ==
  LET shutter_state == IF open_shutter THEN 1 ELSE 0
  IN Emit(endianess, <<PyInt(init_word), PyInt(acquisition_mod_index), PyInt(2),
                       PyInt(header_build(acquisition_sequencer_index,
                                          acquisition_sequencer_getimage_inst)),
                       PyInt(stop_cleaning_mode_dir), PyInt(get_image_mode_dir),
                       PyInt(shutter_state)>>)

\* ByteCode.get_image
get_image(endianess, stop_cleaning_mode_dir, get_image_mode_dir, open_shutter) ==
  LET shutter_state == IF open_shutter THEN 1 ELSE 0
  IN Emit(endianess, <<PyInt(init_word), PyInt(acquisition_mod_index), PyInt(4),
                       PyInt(header_build(acquisition_sequencer_index,
                                          acquisition_sequencer_getimage_inst)),
                       PyInt(stop_cleaning_mode_dir), PyInt(get_image_mode_dir),
                       PyInt(shutter_state)>>)

\* write_sequencer_memory with the least significant word first.
write_sequencer_memoryLsbFirst(endianess, address, data) ==
  LET data1 == BitAnd(Shr(data, 64), Mask32)
      data2 == BitAnd(Shr(data, 32), Mask32)
      data3 == BitAnd(data, Mask32)
  IN Emit(endianess, <<PyInt(init_word), PyInt(acquisition_mod_index), PyInt(5),
                       PyInt(header_build(acquisition_sequencer_index,
                                          acquisition_sequencer_writeseqmem_inst)),
                       PyInt(address), data3, data2, data1>>)

\* ByteCode.write_sequencer_memory
write_sequencer_memory(endianess, address, data) ==
  LET data1 == BitAnd(Shr(data, 64), Mask32)
      data2 == BitAnd(Shr(data, 32), Mask32)
      data3 == BitAnd(data, Mask32)
  IN Emit(endianess, <<PyInt(init_word), PyInt(acquisition_mod_index), PyInt(5),
                       PyInt(header_build(acquisition_sequencer_index,
                                          acquisition_sequencer_writeseqmem_inst)),
                       PyInt(address), data1, data2, data3>>)

\* ByteCode.enable_sequencer
enable_sequencer(endianess) ==
  only_header_instruction(endianess, acquisition_mod_index, acquisition_sequencer_index,
                          acquisition_sequencer_enableseq_inst)

\* ByteCode.disable_sequencer
disable_sequencer(endianess) ==
  only_header_instruction(endianess, acquisition_mod_index, acquisition_sequencer_index,
                          acquisition_sequencer_disableseq_inst)

\* ByteCode.write_exposition_time
write_exposition_time(endianess, time) ==
  Emit(endianess, <<PyInt(init_word), PyInt(acquisition_mod_index), PyInt(2),
                    PyInt(header_build(acquisition_sequencer_index,
                                       acquisition_sequencer_writeexpotime_inst)),
                    time>>)

\* ByteCode.get_pixels_channel
get_pixels_channel(endianess, channel_1or3) ==
  LET header_instruction == IF channel_1or3 THEN acquisition_sequencer_getpxlsch1_inst
                            ELSE acquisition_sequencer_getpxlsch3_inst
  IN Emit(endianess, <<PyInt(init_word), PyInt(acquisition_mod_index), PyInt(1),
                       PyInt(header_build(acquisition_sequencer_index, header_instruction))>>)

\* ByteCode.get_data_channel
get_data_channel(endianess, channel_1or3, samples) ==
  LET header_instruction == IF channel_1or3 THEN acquisition_sequencer_getdatach1_inst
                            ELSE acquisition_sequencer_getdatach3_inst
  IN Emit(endianess, <<PyInt(init_word), PyInt(acquisition_mod_index), PyInt(2),
                       PyInt(header_build(acquisition_sequencer_index, header_instruction)),
                       samples>>)

\* ByteCode.test_sequencer_on
test_sequencer_on(endianess, time, states_high, states_low) ==
  Emit(endianess, <<PyInt(init_word), PyInt(acquisition_mod_index), PyInt(4),
                    PyInt(header_build(acquisition_sequencer_index,
                                       acquisition_sequencer_tstseqon_inst)),
                    time, states_high, states_low>>)

\* ByteCode.test_sequencer_off
test_sequencer_off(endianess) ==
  only_header_instruction(endianess, acquisition_mod_index, acquisition_sequencer_index,
                          acquisition_sequencer_tstseqoff_inst)

\* '{0:02X}'.format(b) and the join of a word's bytes.
HexDigits == <<"0", "1", "2", "3", "4", "5", "6", "7", "8", "9", "A", "B", "C", "D", "E", "F">>

Hex02X(b) == HexDigits[(b \div 16) + 1] \o HexDigits[(b % 16) + 1]

RECURSIVE HexJoin(_)
HexJoin(word) == IF word = <<>> THEN "" ELSE Hex02X(Head(word)) \o HexJoin(Tail(word))

Reversed(word) == [i \in 1..Len(word) |-> word[Len(word) + 1 - i]]

\* line[ii:(ii+word_len)] for ii in range(0, len(line), word_len)
LineWords(line, word_len) ==
  [w \in 1..((Len(line) + word_len - 1) \div word_len) |->
     SubSeq(line, (w - 1) * word_len + 1,
            IF w * word_len < Len(line) THEN w * word_len ELSE Len(line))]

\* as_legacy_file that never reverses the bytes of a word.
as_legacy_fileNoFlip(endianess, bytecode_lines, word_len) ==
  [n \in 1..Len(bytecode_lines) |->
     [line_n |-> n,
      words |-> [w \in 1..Len(LineWords(bytecode_lines[n], word_len)) |->
                   HexJoin(LineWords(bytecode_lines[n], word_len)[w])]]]

\* ByteCode.as_legacy_file
as_legacy_file(endianess, bytecode_lines, word_len) ==
  LET flip == ">" # endianess
  IN [n \in 1..Len(bytecode_lines) |->
        [line_n |-> n,
         words |-> [w \in 1..Len(LineWords(bytecode_lines[n], word_len)) |->
                      LET word == LineWords(bytecode_lines[n], word_len)[w]
                      IN HexJoin(IF flip THEN Reversed(word) ELSE word)]]]

(***************************************************************************)
(* One ByteCode in use: bench holds its endianess, the byte strings its    *)
(* caller has collected (lines), and the last call with what it returned.  *)
(***************************************************************************)
\* Most byte strings collected before they are rendered.
MaxLines == 2

\* 0x11223344 and 0x1122334455667788
X11223344 == [neg |-> FALSE, b |-> <<68, 51, 34, 17>>]

X1122334455667788 == [neg |-> FALSE, b |-> <<136, 119, 102, 85, 68, 51, 34, 17>>]

\* A word of 12 different bytes, a Mode header and a State with all pins set.
PatternWord == [neg |-> FALSE, b |-> <<12, 11, 10, 9, 8, 7, 6, 5, 4, 3, 2, 1>>]

HeaderWord == ModeGetCode(FullMode(2), [n \in {"M1"} |-> 0])

StateWord == StateGetCode(StateInit(AllPins, 16777215))

Word32In == {PyInt(1), X11223344, Mask32}

\* 2^32, one bit too many for a word.
OverWord == Shl(PyInt(1), 32)

Word96In == {PatternWord, HeaderWord, StateWord}

IntToByteListIn ==
  {<<X11223344, 4, FALSE>>, <<Mask32, 4, FALSE>>, <<OverWord, 4, FALSE>>,
   <<PyInt(-2), 4, TRUE>>, <<X1122334455667788, 8, FALSE>>, <<PyInt(1), 8, FALSE>>,
   <<PyInt(1), 2, FALSE>>}

SpiIn == {<<1, 0, 16, X11223344>>, <<255, 1, 24, PyInt(1)>>}

NoByteCall == [op |-> "none", args |-> <<>>, packed |-> <<>>, command |-> <<>>, text |-> <<>>]

ByteBench(endianess) ==
  [obj |-> "ByteCode", endianess |-> endianess, lines |-> <<>>, call |-> NoByteCall]

InitByte ==
  /\ modes = <<>>
  /\ program = NoProgram
  /\ raised = NoError
  /\ errlog = <<>>
  /\ bench \in {ByteBench(e) : e \in {"<", ">"}}

\* packed = b.int_to_byte_list(number, n_bytes, signed); the caller keeps the
\* bytes as a str, joined as _return_op does.
IntToByteList(number, n_bytes, signed) ==
  LET e == IntToByteListError(number, n_bytes, signed)
      packed == int_to_byte_list(bench.endianess, number, n_bytes, signed)
  IN /\ bench.obj = "ByteCode" /\ Len(bench.lines) < MaxLines
     /\ raised' = e
     /\ bench' = IF e # NoError
                 THEN [bench EXCEPT !.call = [NoByteCall EXCEPT
                                                !.op = "int_to_byte_list",
                                                !.args = <<number, n_bytes, signed>>]]
                 ELSE [bench EXCEPT !.call = [NoByteCall EXCEPT
                                                !.op = "int_to_byte_list",
                                                !.args = <<number, n_bytes, signed>>,
                                                !.packed = packed],
                                    !.lines = Append(@, return_op(<<packed>>))]
     /\ UNCHANGED <<modes, program, errlog>>

\* command = b.<op>(args); the caller keeps the command.
ByteOp(op, args, r) ==
  /\ bench.obj = "ByteCode" /\ Len(bench.lines) < MaxLines
  /\ raised' = r.raised
  /\ bench' = [bench EXCEPT !.call = [NoByteCall EXCEPT !.op = op, !.args = args,
                                                         !.command = r.command],
                            !.lines = IF r.raised = NoError THEN Append(@, r.command) ELSE @]
  /\ UNCHANGED <<modes, program, errlog>>

ConfiguratorPowerOn(pwrOn) ==
  ByteOp("configurator_power_on", <<pwrOn>>, configurator_power_on(bench.endianess, pwrOn))

DacsPwrReset == ByteOp("dacs_pwr_reset", <<>>, dacs_pwr_reset(bench.endianess))

ConfiguratorSpiVideo(device, polarity, nbits, data) ==
  ByteOp("configurator_spi_video", <<device, polarity, nbits, data>>,
         configurator_spi_video(bench.endianess, device, polarity, nbits, data))

ConfiguratorSpiBiasClocks(device, polarity, nbits, data) ==
  ByteOp("configurator_spi_bias_clocks", <<device, polarity, nbits, data>>,
         configurator_spi_bias_clocks(bench.endianess, device, polarity, nbits, data))

GetImage(stop_cleaning_mode_dir, get_image_mode_dir, open_shutter) ==
  ByteOp("get_image", <<stop_cleaning_mode_dir, get_image_mode_dir, open_shutter>>,
         get_image(bench.endianess, stop_cleaning_mode_dir, get_image_mode_dir, open_shutter))

WriteSequencerMemory(address, data) ==
  ByteOp("write_sequencer_memory", <<address, data>>,
         write_sequencer_memory(bench.endianess, address, data))

EnableSequencer == ByteOp("enable_sequencer", <<>>, enable_sequencer(bench.endianess))

DisableSequencer == ByteOp("disable_sequencer", <<>>, disable_sequencer(bench.endianess))

WriteExpositionTime(time) ==
  ByteOp("write_exposition_time", <<time>>, write_exposition_time(bench.endianess, time))

GetPixelsChannel(channel_1or3) ==
  ByteOp("get_pixels_channel", <<channel_1or3>>,
         get_pixels_channel(bench.endianess, channel_1or3))

GetDataChannel(channel_1or3, samples) ==
  ByteOp("get_data_channel", <<channel_1or3, samples>>,
         get_data_channel(bench.endianess, channel_1or3, samples))

TestSequencerOn(time, states_high, states_low) ==
  ByteOp("test_sequencer_on", <<time, states_high, states_low>>,
         test_sequencer_on(bench.endianess, time, states_high, states_low))

TestSequencerOff == ByteOp("test_sequencer_off", <<>>, test_sequencer_off(bench.endianess))

\* text = b.as_legacy_file(lines)
AsLegacyFile ==
  /\ bench.obj = "ByteCode" /\ bench.call.op # "as_legacy_file"
  /\ raised' = NoError
  /\ bench' = [bench EXCEPT !.call = [NoByteCall EXCEPT
                                        !.op = "as_legacy_file",
                                        !.text = as_legacy_file(bench.endianess, bench.lines, 4)]]
  /\ UNCHANGED <<modes, program, errlog>>

NextByte ==
  \/ \E x \in IntToByteListIn : IntToByteList(x[1], x[2], x[3])
  \/ \E pwrOn \in BOOLEAN : ConfiguratorPowerOn(pwrOn)
  \/ DacsPwrReset
  \/ \E x \in SpiIn : ConfiguratorSpiVideo(x[1], x[2], x[3], x[4])
  \/ \E x \in SpiIn : ConfiguratorSpiBiasClocks(x[1], x[2], x[3], x[4])
  \/ \E a \in {0, 3}, open_shutter \in BOOLEAN : GetImage(a, 3 - a, open_shutter)
  \/ \E address \in {0, 1022}, data \in Word96In : WriteSequencerMemory(address, data)
  \/ EnableSequencer
  \/ DisableSequencer
  \/ \E time \in {PyInt(1), OverWord} : WriteExpositionTime(time)
  \/ GetPixelsChannel(TRUE)
  \/ GetDataChannel(FALSE, Mask32)
  \/ TestSequencerOn(PyInt(1), X11223344, Mask32)
  \/ TestSequencerOff
  \/ AsLegacyFile

SpecByte == InitByte /\ [][NextByte]_vars

(***************************************************************************)
(* Program.plot with a start_mode: the loop that selects the modes to      *)
(* plot, one pass of the while loop at a time. Of plot_modes, which only   *)
(* grows, the model keeps what the last pass put on it (shown: the mode    *)
(* and how many times); next_mode is kept by its name. A pass that leaves  *)
(* every variable of the loop as it was is still a step of the run: the    *)
(* model counts the passes modulo 2 (odd_pass).                            *)
(***************************************************************************)
\* for state in current_mode.states: mode_time += state.hold_time
RECURSIVE ModeTime(_, _)
ModeTime(m, n) == IF n = 0 THEN 0 ELSE ModeTime(m, n - 1) + m.states[n].hold_time

\* A mode with states of the given hold times.
PlotMode(name, n_loops, next_mode_name, parent_mode_name, nested_loops, holds) ==
  [ModeInit(name, n_loops, next_mode_name, parent_mode_name, nested_loops) EXCEPT
     !.states = [j \in 1..Len(holds) |-> StateInit(PyInt(j), holds[j])]]

\* The programs run: a parent with a nested mode and a terminal mode, two
\* modes that follow each other, a mode without states that follows itself,
\* a mode whose states hold for no time before a terminal mode, and a nested
\* mode without states.
PlotModesIn ==
  {<<PlotMode("M1", 1, "M2", None, 0, <<2>>), PlotMode("M2", 3, "M3", "M1", 2, <<1, 1>>),
     PlotMode("M3", 0, "M3", None, 0, <<5>>)>>,
   <<PlotMode("M1", 2, "M2", None, 0, <<3>>), PlotMode("M2", 1, "M1", None, 0, <<1>>)>>,
   <<PlotMode("M1", 3, "M1", None, 0, <<>>)>>,
   <<PlotMode("M1", 2, "M2", None, 0, <<0>>), PlotMode("M2", 0, "M2", None, 0, <<>>)>>,
   <<PlotMode("M1", 1, "M2", None, 0, <<>>), PlotMode("M2", 2, "M1", "M1", 1, <<>>)>>}

PlotStartIn == {"M1", "M2", "M3", "M4"}

PlotMaxCyclesIn == {0, 5, 12}

PlotCall(start_mode, max_cycles) ==
  [obj |-> "Plot", start_mode |-> start_mode, max_cycles |-> max_cycles, step |-> "args",
   tot_time |-> 0, nested_count |-> 0, next_mode |-> None, shown |-> <<>>,
   odd_pass |-> FALSE]

InitPlot ==
  /\ modes \in {ms \in PlotModesIn : build(ms).raised = NoError}
  /\ program = build(modes).program
  /\ raised = NoError
  /\ errlog = <<>>
  /\ bench \in {PlotCall(s, c) : s \in PlotStartIn, c \in PlotMaxCyclesIn}

\* Program.get_mode raising for a name that is not in the program.
PlotRaises(name) ==
  /\ raised' = ValueError("mode", <<name>>)
  /\ bench' = [bench EXCEPT !.step = "raised"]

\* tot_time = 0; nested_count = 0; plot_modes = [];
\* next_mode = self.get_mode(start_mode)
PlotStart ==
  /\ bench.obj = "Plot" /\ bench.step = "args"
  /\ IF HasMode(modes, bench.start_mode)
     THEN /\ raised' = NoError
          /\ bench' = [bench EXCEPT !.step = "loop", !.next_mode = bench.start_mode]
     ELSE PlotRaises(bench.start_mode)
  /\ UNCHANGED <<modes, program, errlog>>

\* One pass of the body of while(tot_time < max_cycles).
PlotPass ==
  /\ bench.obj = "Plot" /\ bench.step = "loop" /\ bench.tot_time < bench.max_cycles
  /\ LET current_mode == get_mode(modes, bench.next_mode)
         mode_time == ModeTime(current_mode, Len(current_mode.states))
         back == is_nested(current_mode) /\ bench.nested_count < current_mode.nested_loops
         mode_multiplier == IF ~is_nested(current_mode) THEN current_mode.n_loops
                            ELSE IF back THEN 1 ELSE 0
     IN IF ~HasMode(modes, current_mode.next_mode_name)
        THEN PlotRaises(current_mode.next_mode_name)
        ELSE IF current_mode.n_loops <= 0
        THEN /\ raised' = NoError
             /\ bench' = [bench EXCEPT !.step = "done",
                                       !.odd_pass = ~@,
                                       !.next_mode = current_mode.next_mode_name,
                                       !.shown = <<current_mode.name, 1>>]
        ELSE IF back /\ ~HasMode(modes, current_mode.parent_mode_name)
        THEN PlotRaises(current_mode.parent_mode_name)
        ELSE /\ raised' = NoError
             /\ bench' = [bench EXCEPT
                  !.odd_pass = ~@,
                  !.nested_count = IF ~is_nested(current_mode) THEN @
                                   ELSE IF back THEN @ + 1 ELSE 0,
                  !.next_mode = IF back THEN current_mode.parent_mode_name
                                ELSE current_mode.next_mode_name,
                  !.shown = <<current_mode.name, mode_multiplier>>,
                  !.tot_time = @ + mode_time * mode_multiplier]
  /\ UNCHANGED <<modes, program, errlog>>

\* The while loop ends on its condition.
PlotEnd ==
  /\ bench.obj = "Plot" /\ bench.step = "loop" /\ bench.tot_time >= bench.max_cycles
  /\ bench' = [bench EXCEPT !.step = "done"]
  /\ UNCHANGED <<modes, program, raised, errlog>>

NextPlot ==
  \/ PlotStart
  \/ PlotPass
  \/ PlotEnd

SpecPlot == InitPlot /\ [][NextPlot]_vars

\* plot() runs on: a pass that can be made is made.
SpecPlotFair == SpecPlot /\ WF_vars(NextPlot)

(***************************************************************************)
(* _CCD.get_configuration_bytecode (AndesControllerLib/bkp/0/ccd - v1.py)  *)
(* with the ByteCode of bkp/0/binary - v1.py as its formatter, whose       *)
(* int_to_byte_list and _return_op are those of binary.py. The program is  *)
(* one of sequencer.py, the sequencer module of the repository.            *)
(***************************************************************************)
\* ByteCode._pwr_mod_index, _spi_mod_index, _seq_mod_index, _header_shift
pwr_mod_index == 0

spi_mod_index == 1

seq_mod_index == 4

header_shift == 24

\* The headers of regulator_power_on.
regulator_headers ==
  [clocks_dacs |-> 1, bias_dacs |-> 2, bias_hv |-> 3, bias_lv |-> 4, clocks |-> 5, video |-> 6]

\* ByteCode._paste_byte at position 3 raises if data has a bit in its top
\* byte or above, or if byte is not one.
PasteByteError(data, byte) ==
  IF BitAnd(data, PyInt(Pow2(header_shift) - 1)) # data \/ byte > 255 \/ byte < 0
  THEN ValueError("paste", <<byte>>) ELSE NoError

paste_byte(data, byte) == BitOr(data, Shl(PyInt(byte), header_shift))

\* ByteCode._check_header on the packed fourth word: its top byte is the
\* header expected.
CheckHeaderError(number, expected_value) ==
  IF AsInt(BitAnd(Shr(number, header_shift), PyInt(255))) # expected_value
  THEN [kind |-> "RuntimeError", args |-> <<expected_value>>] ELSE NoError

\* An instruction of four words, the last one data with the header pasted on,
\* followed by the bytes given.
Instruction(endianess, module, count, data, header, bytes) ==
  IF PasteByteError(data, header) # NoError
  THEN [raised |-> PasteByteError(data, header), command |-> <<>>]
  ELSE LET r == Emit(endianess, <<PyInt(init_word), PyInt(module), PyInt(count),
                                  paste_byte(data, header)>>)
       IN IF r.raised # NoError THEN r
          ELSE [raised |-> NoError, command |-> r.command \o bytes]

\* ByteCode._only_header_instruction of binary - v1.py
only_header_instruction_v1(endianess, module, header) ==
  Instruction(endianess, module, 1, PyInt(0), header, <<>>)

\* ByteCode.spi_write
spi_write(endianess, bus, device, polarity, nbits, data) ==
  IF PackError(data, FALSE) THEN [raised |-> StructError, command |-> <<>>]
  ELSE Instruction(endianess, spi_mod_index, 2,
                   PyInt(bus * Pow2(20) + device * Pow2(16) + polarity * Pow2(8) + nbits), 0,
                   int_to_byte_list(endianess, data, 4, FALSE))

\* ByteCode.seq_write_mem
seq_write_mem(endianess, address, data) ==
  LET r == Emit(endianess, <<PyInt(init_word), PyInt(seq_mod_index), PyInt(3),
                             PyInt(address)>>)
  IN IF r.raised # NoError THEN r
     ELSE IF CheckHeaderError(PyInt(address), 0) # NoError
     THEN [raised |-> CheckHeaderError(PyInt(address), 0), command |-> <<>>]
     ELSE [raised |-> NoError,
           command |-> r.command \o int_to_byte_list(endianess, data, 8, FALSE)]

\* ByteCode.regulator_power_on, for a regulator of its list.
regulator_power_on(endianess, regulator, pwrOn) ==
  Instruction(endianess, pwr_mod_index, 1, PyInt(IF pwrOn THEN Pow2(16) ELSE 0),
              regulator_headers[regulator], <<>>)

\* ByteCode.dacs_pwr_reset of binary - v1.py
dacs_pwr_reset_v1(endianess) == only_header_instruction_v1(endianess, pwr_mod_index, 7)

\* ByteCode.seq_enable
seq_enable(endianess) == only_header_instruction_v1(endianess, seq_mod_index, 2)

\* for word in words: formatter.spi_write(..., word.code)
SpiCodes(endianess, words) ==
  [k \in 1..Len(words) |->
     spi_write(endianess, words[k].bus, words[k].dev, words[k].pol, words[k].nbits,
               PyInt(words[k].code))]

\* for word in words: formatter.spi_write(..., (word.address<<16) + word.voltage)
SpiVoltages(endianess, words) ==
  [k \in 1..Len(words) |->
     spi_write(endianess, words[k].bus, words[k].dev, words[k].pol, words[k].nbits,
               PyInt(words[k].address * Pow2(16) + words[k].voltage))]

\* The calls get_configuration_bytecode makes on the formatter, in its order.
ConfigurationCalls(endianess, codes, word_config_codes) ==
  <<regulator_power_on(endianess, "bias_hv", FALSE),
    regulator_power_on(endianess, "bias_lv", FALSE),
    regulator_power_on(endianess, "clocks", FALSE),
    regulator_power_on(endianess, "video", FALSE),
    regulator_power_on(endianess, "clocks_dacs", TRUE),
    regulator_power_on(endianess, "bias_dacs", TRUE),
    dacs_pwr_reset_v1(endianess)>>
  \o SpiCodes(endianess, word_config_codes.BiasClocksConfig)
  \o SpiVoltages(endianess, word_config_codes.BiasClocksVoltage)
  \o [ii \in 1..Len(codes) |-> seq_write_mem(endianess, ii - 1, codes[ii])]
  \o <<seq_enable(endianess),
       regulator_power_on(endianess, "video", TRUE)>>
  \o SpiCodes(endianess, word_config_codes.VideoAdcConfig)
  \o SpiCodes(endianess, word_config_codes.VideoConfig)
  \o SpiVoltages(endianess, word_config_codes.VideoVoltage)
  \o <<regulator_power_on(endianess, "bias_hv", TRUE),
       regulator_power_on(endianess, "bias_lv", TRUE),
       regulator_power_on(endianess, "clocks", TRUE)>>

\* What the calls come to: the lines they return, or the error of the first
\* call that raises.
BytecodeLines(calls) ==
  IF \E k \in 1..Len(calls) : calls[k].raised # NoError
  THEN [raised |-> calls[CHOOSE k \in 1..Len(calls) :
                           /\ calls[k].raised # NoError
                           /\ \A j \in 1..(k - 1) : calls[j].raised = NoError].raised,
        bytecode_lines |-> <<>>]
  ELSE [raised |-> NoError, bytecode_lines |-> [k \in 1..Len(calls) |-> calls[k].command]]

\* _CCD.get_configuration_bytecode of a CCD whose attributes pass
\* _init_sanity_check, as they did when it was constructed; has_program is
\* hasattr(self, 'configured_program'). The calls are made once.
get_configuration_bytecode(endianess, has_program, codes, word_config_codes) ==
  IF ~has_program THEN [raised |-> ValueError("compile first", <<>>), bytecode_lines |-> <<>>]
  ELSE CHOOSE r \in {BytecodeLines(calls) :
                       calls \in {ConfigurationCalls(endianess, codes, word_config_codes)}} : TRUE

\* The words _create_word_codes gives: none, one of each kind, and two for the
\* configuration of the bias and clocks.
SpiWord(dev, code, address, voltage) ==
  [bus |-> 1, dev |-> dev, pol |-> 0, nbits |-> 24, code |-> code, address |-> address,
   voltage |-> voltage]

NoWordCodes ==
  [BiasClocksConfig |-> <<>>, BiasClocksVoltage |-> <<>>, VideoAdcConfig |-> <<>>,
   VideoConfig |-> <<>>, VideoVoltage |-> <<>>]

WordCodesIn ==
  {NoWordCodes,
   [BiasClocksConfig |-> <<SpiWord(0, 9, 0, 0)>>, BiasClocksVoltage |-> <<SpiWord(1, 0, 3, 700)>>,
    VideoAdcConfig |-> <<SpiWord(2, 5, 0, 0)>>, VideoConfig |-> <<SpiWord(3, 6, 0, 0)>>,
    VideoVoltage |-> <<SpiWord(4, 0, 2, 100)>>],
   [NoWordCodes EXCEPT !.BiasClocksConfig = <<SpiWord(0, 9, 0, 0), SpiWord(0, 10, 0, 0)>>]}

\* The modes _create_sequencer_program builds its program from.
CcdModesIn == {ms \in PlotModesIn : build(ms).raised = NoError} \cup {<<>>}

CcdBench(endianess, word_config_codes) ==
  [obj |-> "CCD", endianess |-> endianess, word_config_codes |-> word_config_codes,
   has_program |-> FALSE, step |-> "new", bytecode_lines |-> <<>>]

InitCcd ==
  /\ modes = <<>>
  /\ program = NoProgram
  /\ raised = NoError
  /\ errlog = <<>>
  /\ bench \in {CcdBench(e, w) : e \in {"<", ">"}, w \in WordCodesIn}

\* ccd.compile_configured_program()
CompileConfiguredProgram ==
  /\ bench.obj = "CCD"
  /\ \E ms \in CcdModesIn :
       /\ modes' = ms
       /\ program' = build(ms).program
  /\ raised' = NoError
  /\ bench' = [bench EXCEPT !.has_program = TRUE, !.step = "compiled"]
  /\ UNCHANGED errlog

\* bytecode_lines = ccd.get_configuration_bytecode(formatter)
GetConfigurationBytecode ==
  /\ bench.obj = "CCD"
  /\ \E r \in {get_configuration_bytecode(bench.endianess, bench.has_program, program.codes,
                                          bench.word_config_codes)} :
        /\ raised' = r.raised
        /\ bench' = [bench EXCEPT !.step = IF r.raised = NoError THEN "returned" ELSE "raised",
                                  !.bytecode_lines = r.bytecode_lines]
  /\ UNCHANGED <<modes, program, errlog>>

NextCcd ==
  \/ CompileConfiguredProgram
  \/ GetConfigurationBytecode

SpecCcd == InitCcd /\ [][NextCcd]_vars

(***************************************************************************)
(* What a compiled program is measured against: the modes as registered.   *)
(* Under Spec nothing is added once build() has returned a program, so     *)
(* modes are then the modes the program was compiled from.                 *)
(***************************************************************************)
\* Words the modes before the i-th one occupy.
RECURSIVE WordsBefore(_)
WordsBefore(i) == IF i <= 1 THEN 0 ELSE WordsBefore(i - 1) + 1 + Len(modes[i - 1].states)

\* Indexes (from 0) of the words that come from Mode headers.
HeaderIndexes == {WordsBefore(i) : i \in 1..Len(modes)}

Registered(name) == \E i \in 1..Len(modes) : modes[i].name = name

\* words[k], with k counted from 0 as in the program memory.
Word(k) == program.codes[k + 1]

address_of(name) == program.address_map[name]

\* C1: a compiled program is header(m_0), states of m_0 in order, header(m_1),
\* states of m_1 in order, ...: the header of mode m is words[address_of(m)],
\* its j-th state is words[address_of(m)+1+j], and there are no other words.
C1_Layout ==
  program.built =>
    /\ Len(program.codes) = WordsBefore(Len(modes) + 1)
    /\ \A i \in 1..Len(modes) :
         /\ address_of(modes[i].name) = WordsBefore(i)
         /\ Word(address_of(modes[i].name)) = ModeGetCode(modes[i], program.address_map)
         /\ \A j \in 1..Len(modes[i].states) :
              Word(address_of(modes[i].name) + j) = StateGetCode(modes[i].states[j])

\* A program of two modes, the first with two different states, the second with one.
C1_Witness ==
  /\ program.built
  /\ Len(modes) = 2
  /\ Len(modes[1].states) = 2
  /\ modes[1].states[1] # modes[1].states[2]
  /\ Len(modes[2].states) = 1

\* C2: the first registered mode has address 0 and each next mode's address is
\* the previous mode's address + 1 + its number of states (strictly increasing).
C2_AddressMonotonic ==
  program.built =>
    /\ Len(modes) > 0 => address_of(modes[1].name) = 0
    /\ \A i \in 1..(Len(modes) - 1) :
         /\ address_of(modes[i + 1].name)
              = address_of(modes[i].name) + 1 + Len(modes[i].states)
         /\ address_of(modes[i + 1].name) > address_of(modes[i].name)

C2_Witness ==
  /\ program.built
  /\ Len(modes) = 2
  /\ Len(modes[1].states) = 2
  /\ address_of(modes[2].name) = 3

\* A reference that is given and names no registered mode, a parent that is nested.
UnresolvedNext(m) == m.next_mode_name # None /\ ~Registered(m.next_mode_name)

UnresolvedParent(m) == is_nested(m) /\ ~Registered(m.parent_mode_name)

DoubleNested(m) ==
  /\ is_nested(m)
  /\ \E i \in 1..Len(modes) : modes[i].name = m.parent_mode_name /\ is_nested(modes[i])

\* C3: next_mode is checked only if present: a build() that stops on consistency
\* errors has a mode with an unresolved next_mode or parent_mode or a double nesting.
C3_MissingNextCompiles ==
  raised.kind = "consistency" =>
    \E i \in 1..Len(modes) :
      UnresolvedNext(modes[i]) \/ UnresolvedParent(modes[i]) \/ DoubleNested(modes[i])


\* C4: a build() of exactly 1023 words succeeds, one of 1024 words or more is
\* refused with a memory error that gives the count and the limit 1023; every
\* compiled program has at most 1023 words.
C4_Capacity ==
  /\ program.built =>
       /\ Len(program.codes) = WordsBefore(Len(modes) + 1)
       /\ Len(program.codes) <= 1023
  /\ raised.kind = "memory" =>
       /\ WordsBefore(Len(modes) + 1) >= 1024
       /\ raised.args = <<WordsBefore(Len(modes) + 1), 1023>>

\* A compiled program that fills the memory exactly.
C4_Witness == program.built /\ Len(program.codes) = 1023

\* C5: in a compiled program bits 95..88 of a word are 0x80 if it comes from a
\* Mode header and 0x00 if it comes from a State, and no word has a bit above
\* bit 95, whatever Mode and State the constructors accepted.
C5_TagDisjoint ==
  program.built =>
    \A k \in 0..(Len(program.codes) - 1) :
      /\ Shr(Word(k), 96) = PyInt(0)
      /\ Field(Word(k), 88, 8) = IF k \in HeaderIndexes THEN 128 ELSE 0

\* The original reading of C6: the one error build() raises holds an issue for
\* every violation found (each unresolved next_mode, each unresolved parent_mode,
\* each double nesting).
C6_ErrorHoldsIssues ==
  raised.kind = "consistency" =>
    \A i \in 1..Len(modes) :
      /\ UnresolvedNext(modes[i]) =>
           \E k \in 1..Len(raised.args) :
             raised.args[k] = Issue("next", modes[i].name, modes[i].next_mode_name)
      /\ UnresolvedParent(modes[i]) =>
           \E k \in 1..Len(raised.args) :
             raised.args[k] = Issue("parent", modes[i].name, modes[i].parent_mode_name)
      /\ DoubleNested(modes[i]) =>
           \E k \in 1..Len(raised.args) :
             raised.args[k] = Issue("double", modes[i].name, modes[i].parent_mode_name)

\* Messages of one kind the last build() logged about one mode.
CountIssues(kind, m) ==
  Cardinality({k \in 1..Len(errlog) :
                 errlog[k] = Issue(kind, m.name,
                                   IF kind = "next" THEN m.next_mode_name
                                   ELSE m.parent_mode_name)})

\* C6 (amended): one build() examines every mode and writes one message to the
\* error log for each mode whose next_mode_name is no registered name, one for
\* each nested mode whose parent is not registered and one for each nested mode
\* whose parent is nested, and no other message, before it raises its one error.
C6_BatchLogged ==
  raised.kind = "consistency" =>
    /\ \A i \in 1..Len(modes) :
         /\ CountIssues("next", modes[i])
              = IF Registered(modes[i].next_mode_name) THEN 0 ELSE 1
         /\ CountIssues("parent", modes[i]) = IF UnresolvedParent(modes[i]) THEN 1 ELSE 0
         /\ CountIssues("double", modes[i]) = IF DoubleNested(modes[i]) THEN 1 ELSE 0
    /\ \A k \in 1..Len(errlog) :
         \E i \in 1..Len(modes), kind \in {"next", "parent", "double"} :
           /\ modes[i].name = errlog[k].mode
           /\ errlog[k].kind = kind
           /\ CountIssues(kind, modes[i]) = 1
    /\ \A k1, k2 \in 1..Len(errlog) : errlog[k1] = errlog[k2] => k1 = k2

\* Two modes, one with an unresolved next_mode and a double nesting: both logged.
C6_Witness ==
  /\ raised.kind = "consistency"
  /\ Len(modes) = 2
  /\ \E k \in 1..Len(errlog) : errlog[k].kind = "next" /\ errlog[k].ref = "M3"
  /\ \E k \in 1..Len(errlog) : errlog[k].kind = "double"

\* C7: build() returns no program when the parent of a nested mode is nested
\* (a mode nested in itself included); in a compiled program every header
\* with is_nested set names as parent a header with is_nested clear.
C7_NoDoubleNesting ==
  program.built =>
    /\ \A i \in 1..Len(modes) : ~DoubleNested(modes[i])
    /\ \A h \in HeaderIndexes :
         Field(Word(h), 32, 8) = 1 =>
           /\ Field(Word(h), 0, 16) \in HeaderIndexes
           /\ Field(Word(Field(Word(h), 0, 16)), 32, 8) = 0

\* A build() stopped by double nesting alone, one of the modes its own parent.
C7_Witness ==
  /\ raised.kind = "consistency"
  /\ errlog # <<>>
  /\ \A k \in 1..Len(errlog) : errlog[k].kind = "double"
  /\ \E i \in 1..Len(modes) : modes[i].parent_mode_name = modes[i].name

\* C8: in a compiled program every next_mode and parent_mode names a registered
\* mode, every header's next_address is 0x3FF or the index of a header, and
\* every nested header's parent_address is the index of a header.
C8_ReferencesResolve ==
  program.built =>
    /\ \A i \in 1..Len(modes) : ~UnresolvedNext(modes[i]) /\ ~UnresolvedParent(modes[i])
    /\ \A h \in HeaderIndexes :
         /\ Field(Word(h), 16, 16) \in HeaderIndexes \cup {invalid_mode}
         /\ Field(Word(h), 32, 8) = 1 => Field(Word(h), 0, 16) \in HeaderIndexes

\* A program with a nested mode whose next and parent are not at address 0.
C8_Witness ==
  /\ program.built
  /\ \E i \in 1..Len(modes) :
       /\ is_nested(modes[i])
       /\ Field(Word(WordsBefore(i)), 0, 16) > 0
       /\ Field(Word(WordsBefore(i)), 16, 16) > 0
       /\ Field(Word(WordsBefore(i)), 16, 16) # invalid_mode


\* C9: the header of a mode without next_mode has next_address 0x3FF; the header
\* of a mode that is not nested has is_nested 0, parent_address 0x3FF and
\* nested_loop_count 0; the header of a nested mode has is_nested 1, the address
\* of its parent and its nested_loops.
C9_SentinelEncoding ==
  (bench.obj = "Mode" /\ bench.step = "coded") =>
    /\ bench.mode.next_mode_name = None => Field(bench.code, 16, 16) = 1023
    /\ ~is_nested(bench.mode) =>
         /\ Field(bench.code, 32, 8) = 0
         /\ Field(bench.code, 0, 16) = 1023
         /\ Field(bench.code, 40, 16) = 0
    /\ is_nested(bench.mode) =>
         /\ Field(bench.code, 32, 8) = 1
         /\ Field(bench.code, 0, 16) = bench.address_cache[bench.mode.parent_mode_name]
         /\ Field(bench.code, 40, 16) = bench.mode.nested_loops

\* Pin i as State.format_code wrote it out (-1: not written).
FormattedPin(text, i) == IF i < Len(text.pins) THEN text.pins[i + 1] ELSE -1

\* C10: formatting the code of a state with a 64-bit pin vector gives back the
\* state's hold_time and the value of each of its 64 pins.
C10_StateRoundTrip ==
  (bench.obj = "State" /\ bench.step = "formatted" /\ Shr(bench.state.data, 64) = PyInt(0)) =>
    /\ bench.text.time = bench.state.hold_time
    /\ \A i \in 0..63 : FormattedPin(bench.text, i) = get_value_of_address(bench.state, i)

\* C11: for a Mode the constructor accepted and an address map that has its
\* next and parent modes, the six fields Mode.format_code reads from the code
\* get_code returned are the values that were packed: the number of states,
\* n_loops, nested_loops (0 if not nested), is_nested, and the addresses of the
\* next and parent modes (0x3FF where there is none).
C11_ModeRoundTrip ==
  (bench.obj = "Mode" /\ bench.step = "formatted") =>
    /\ bench.text.n_states = Len(bench.mode.states)
    /\ bench.text.n_loops = bench.mode.n_loops
    /\ bench.text.nested_loops = (IF is_nested(bench.mode) THEN bench.mode.nested_loops ELSE 0)
    /\ bench.text.is_nested = (IF is_nested(bench.mode) THEN 1 ELSE 0)
    /\ bench.text.next_address
         = (IF bench.mode.next_mode_name # None
            THEN bench.address_cache[bench.mode.next_mode_name] ELSE invalid_mode)
    /\ bench.text.parent_address
         = (IF is_nested(bench.mode)
            THEN bench.address_cache[bench.mode.parent_mode_name] ELSE invalid_mode)

\* C12: Program.as_str gives a word of a compiled program to the Mode formatter
\* if and only if the word comes from a Mode header, and to the State formatter
\* if and only if it comes from a State; it writes one line per word.
C12_AsStrClassifies ==
  bench.obj = "Program" =>
    /\ Len(bench.text) = Len(program.codes)
    /\ \A k \in 0..(Len(program.codes) - 1) :
         bench.text[k + 1].formatter = IF k \in HeaderIndexes THEN "Mode" ELSE "State"

\* The bytes of a word in the order the configured endianess sends them,
\* given least significant byte first.
Oriented(endianess, word) == IF endianess = "<" THEN word ELSE Reversed(word)

\* C13: int_to_byte_list(v, n_bytes=8) of an unsigned 64-bit v is the four bytes
\* of the high 32 bits followed by the four bytes of the low 32 bits, each half
\* in the configured byte order; little-endian, 0x1122334455667788 gives
\* 44 33 22 11 88 77 66 55, which is not the 8-byte little-endian encoding.
C13_WidePacking ==
  (/\ bench.obj = "ByteCode" /\ bench.call.op = "int_to_byte_list"
   /\ bench.call.args[2] = 8 /\ ~bench.call.args[3]
   /\ ~bench.call.args[1].neg /\ Shr(bench.call.args[1], 64) = PyInt(0)) =>
    LET v == bench.call.args[1]
        high == [i \in 1..4 |-> ByteAt(v, 3 + i)]
        low == [i \in 1..4 |-> ByteAt(v, i - 1)]
    IN /\ raised = NoError
       /\ bench.call.packed = Oriented(bench.endianess, high) \o Oriented(bench.endianess, low)
       /\ (bench.endianess = "<" /\ v = X1122334455667788) =>
            /\ bench.call.packed = <<68, 51, 34, 17, 136, 119, 102, 85>>
            /\ bench.call.packed # [i \in 1..8 |-> ByteAt(v, i - 1)]

\* 0x1122334455667788 packed in 8 bytes under the little-endian configuration.
C13_Witness ==
  /\ bench.obj = "ByteCode" /\ bench.endianess = "<"
  /\ bench.call.op = "int_to_byte_list"
  /\ bench.call.args = <<X1122334455667788, 8, FALSE>>
  /\ Len(bench.call.packed) = 8

\* The operations that return a command.
CommandOps ==
  {"configurator_power_on", "dacs_pwr_reset", "configurator_spi_video",
   "configurator_spi_bias_clocks", "get_image", "write_sequencer_memory",
   "enable_sequencer", "disable_sequencer", "write_exposition_time",
   "get_pixels_channel", "get_data_channel", "test_sequencer_on", "test_sequencer_off"}

\* <<module, submodule, operation>> a call addresses.
Addressed(op, args) ==
  CASE op = "configurator_power_on" -> <<0, 0, 1>>
    [] op = "dacs_pwr_reset" -> <<0, 0, 2>>
    [] op = "configurator_spi_video" -> <<0, 1, 0>>
    [] op = "configurator_spi_bias_clocks" -> <<0, 2, 0>>
    [] op = "get_image" -> <<1, 0, 0>>
    [] op = "write_sequencer_memory" -> <<1, 0, 1>>
    [] op = "enable_sequencer" -> <<1, 0, 2>>
    [] op = "disable_sequencer" -> <<1, 0, 3>>
    [] op = "write_exposition_time" -> <<1, 0, 4>>
    [] op = "get_pixels_channel" -> <<1, 0, IF args[1] THEN 5 ELSE 6>>
    [] op = "get_data_channel" -> <<1, 0, IF args[1] THEN 7 ELSE 8>>
    [] op = "test_sequencer_on" -> <<1, 0, 9>>
    [] op = "test_sequencer_off" -> <<1, 0, 10>>

\* The k-th 32-bit word of a command (k from 0), read in the configured order.
CommandWord(k) ==
  Norm(FALSE, Oriented(bench.endianess, SubSeq(bench.call.command, 4 * k + 1, 4 * k + 4)))

\* C14: every command is the marker 0x029A, the module index, word_count and
\* the header (submodule << 16) | operation, four bytes each, then the operands;
\* word_count is the number of 32-bit words after it, (len(command) - 12) / 4.
C14_Envelope ==
  (bench.obj = "ByteCode" /\ bench.call.op \in CommandOps /\ raised = NoError) =>
    LET target == Addressed(bench.call.op, bench.call.args)
    IN /\ Len(bench.call.command) >= 16
       /\ Len(bench.call.command) % 4 = 0
       /\ CommandWord(0) = PyInt(666)
       /\ CommandWord(1) = PyInt(target[1])
       /\ AsInt(CommandWord(2)) * 4 = Len(bench.call.command) - 12
       /\ CommandWord(3) = PyInt(target[2] * 65536 + target[3])

\* A get_image command sent big-endian: three operands, word_count 4.
C14_Witness ==
  /\ bench.obj = "ByteCode" /\ bench.endianess = ">"
  /\ bench.call.op = "get_image" /\ raised = NoError
  /\ Len(bench.call.command) = 28
  /\ SubSeq(bench.call.command, 9, 12) = <<0, 0, 0, 4>>

\* C15: write_sequencer_memory(a, w) of a 96-bit w carries the operands a, d1,
\* d2, d3 in this order, each a 32-bit word of its own, with d1 = w[95:64],
\* d2 = w[63:32], d3 = w[31:0], so that (d1 << 64) | (d2 << 32) | d3 = w; the
\* top byte of d1 is the tag byte of w.
C15_MemoryWriteLossless ==
  (/\ bench.obj = "ByteCode" /\ bench.call.op = "write_sequencer_memory"
   /\ ~bench.call.args[2].neg /\ Shr(bench.call.args[2], 96) = PyInt(0)) =>
    LET a == bench.call.args[1]
        w == bench.call.args[2]
        d1 == CommandWord(5)
        d2 == CommandWord(6)
        d3 == CommandWord(7)
    IN /\ raised = NoError
       /\ Len(bench.call.command) = 32
       /\ CommandWord(4) = PyInt(a)
       /\ d1 = Norm(FALSE, [i \in 1..4 |-> ByteAt(w, 7 + i)])
       /\ d2 = Norm(FALSE, [i \in 1..4 |-> ByteAt(w, 3 + i)])
       /\ d3 = Norm(FALSE, [i \in 1..4 |-> ByteAt(w, i - 1)])
       /\ BitOr(BitOr(Shl(d1, 64), Shl(d2, 32)), d3) = w
       /\ ByteAt(d1, 3) = Field(w, 88, 8)

\* A Mode header written to address 1022: the tag 0x80 is the top byte of d1.
C15_Witness ==
  /\ bench.obj = "ByteCode" /\ bench.call.op = "write_sequencer_memory"
  /\ bench.call.args = <<1022, HeaderWord>>
  /\ raised = NoError
  /\ ByteAt(CommandWord(5), 3) = 128

\* v in 8 uppercase hexadecimal digits, most significant first.
Hex8(v) ==
  HexDigits[Field(v, 28, 4) + 1] \o HexDigits[Field(v, 24, 4) + 1]
  \o HexDigits[Field(v, 20, 4) + 1] \o HexDigits[Field(v, 16, 4) + 1]
  \o HexDigits[Field(v, 12, 4) + 1] \o HexDigits[Field(v, 8, 4) + 1]
  \o HexDigits[Field(v, 4, 4) + 1] \o HexDigits[Field(v, 0, 4) + 1]

\* C16: as_legacy_file writes one line per byte string, and a byte string that
\* is the encoder's 4-byte packing of a 32-bit v comes out as the 8 uppercase
\* hexadecimal digits of v, most significant byte first, under the
\* little-endian and under the big-endian configuration.
C16_HexRendering ==
  (bench.obj = "ByteCode" /\ bench.call.op = "as_legacy_file") =>
    /\ Len(bench.call.text) = Len(bench.lines)
    /\ \A n \in 1..Len(bench.lines) :
         /\ bench.call.text[n].line_n = n
         /\ \A v \in Word32In :
              bench.lines[n] = return_op(<<int_to_byte_list(bench.endianess, v, 4, FALSE)>>)
                => bench.call.text[n].words = <<Hex8(v)>>

\* Two packed words rendered under the little-endian configuration.
C16_Witness ==
  /\ bench.obj = "ByteCode" /\ bench.endianess = "<"
  /\ bench.call.op = "as_legacy_file"
  /\ bench.lines = <<<<68, 51, 34, 17>>, <<255, 255, 255, 255>>>>
  /\ bench.call.text = <<[line_n |-> 1, words |-> <<"11223344">>],
                         [line_n |-> 2, words |-> <<"FFFFFFFF">>]>>

\* C17: the names of the registered modes are pairwise different, and add_mode
\* of a mode whose name is registered raises and leaves the list of modes as
\* it was (a step that raises the name error does not change the modes, and a
\* step that does not raise it is no add_mode of a registered name).
C17_UniqueNames ==
  /\ [](\A i, j \in 1..Len(modes) : modes[i].name = modes[j].name => i = j)
  /\ [][raised'.kind = "mode name" => modes' = modes]_vars
  /\ [][raised'.kind # "mode name" =>
          \A name \in Names, ln \in LoopNextIn, pn \in NestingIn :
            Registered(name) => ~AddMode(name, ln[1], ln[2], pn[1], pn[2])]_vars

\* add_mode has refused a second mode of a registered name.
C17_Witness ==
  /\ raised.kind = "mode name"
  /\ Len(modes) = 1
  /\ raised.args = <<modes[1].name>>

\* C18: every constructed Mode has n_loops in [0, 65535] and, if it is nested,
\* nested_loops in [0, 65535]: Mode() raises for any other value, negative
\* ones included.
C18_CountersInRange ==
  \A i \in 1..Len(modes) :
    /\ modes[i].n_loops \in 0..65535
    /\ is_nested(modes[i]) => modes[i].nested_loops \in 0..65535

\* C19: a Mode never holds more than 1023 states, and add_state on a Mode that
\* holds 1023 states raises the too-many-states error and leaves the states as
\* they were.
C19_StateLimit ==
  /\ [](\A i \in 1..Len(modes) : Len(modes[i].states) <= 1023)
  /\ [][(Len(modes[1].states) = 1023 /\ AddState(1, PyInt(5), 10))
          => (raised'.kind = "states" /\ modes' = modes)]_vars

\* A full Mode after add_state or add_states was refused.
C19_Witness ==
  /\ raised.kind = "states"
  /\ Len(modes[1].states) = 1023

\* The other arguments of the call are ones the constructor takes: at most 64
\* bits, named bits that all have a label.
OtherArgumentsTaken ==
  /\ bench.via = "from_bits" => Len(bench.data_bits) <= 64
  /\ bench.via = "from_labels" => DOMAIN bench.named_bits \subseteq DOMAIN bench.labels

\* C20: State(data, hold_time), State.from_bits and State.from_labels, given
\* other arguments they take, raise the hold-time error if hold_time is outside
\* [0, 2^24-1] and otherwise return a State that has this hold_time; every
\* State they return has its hold_time in [0, 2^24-1].
C20_HoldTimeRange ==
  (bench.obj = "StateCall" /\ bench.step # "args") =>
    /\ bench.step = "returned" => bench.state.hold_time \in 0..16777215
    /\ OtherArgumentsTaken =>
         IF bench.hold_time < 0 \/ bench.hold_time > 16777215
         THEN bench.step = "raised" /\ raised.kind = "hold_time"
         ELSE /\ bench.step = "returned" /\ raised = NoError
              /\ bench.state.hold_time = bench.hold_time

\* from_labels refused for a hold time of 2^24.
C20_Witness ==
  /\ bench.obj = "StateCall" /\ bench.step = "raised"
  /\ raised = ValueError("hold_time", <<16777216, 16777215>>)
  /\ bench.via = "from_labels" /\ bench.hold_time = 16777216

\* C21: State.from_labels(L, B, t), with L injective into 0..63, B giving 0 or
\* 1 to names of L and t a hold time in range, returns a state whose pin at
\* L[n] is B[n] for every name n of B, whose other pins are 0 and whose
\* hold_time is t; labels {A:0, B:1} with {A:1} and hold_time 10 give the pin
\* vector 0b01, pin 0 set and pin 1 clear.
Injective(labels) ==
  \A k1, k2 \in DOMAIN labels : labels[k1] = labels[k2] => k1 = k2

NamedBitsTaken ==
  /\ Injective(bench.labels)
  /\ \A k \in DOMAIN bench.labels : bench.labels[k] \in 0..63
  /\ DOMAIN bench.named_bits \subseteq DOMAIN bench.labels
  /\ \A k \in DOMAIN bench.named_bits : bench.named_bits[k] \in {0, 1}
  /\ bench.hold_time \in 0..16777215

C21_NamedBits ==
  (bench.obj = "StateCall" /\ bench.via = "from_labels" /\ bench.step # "args"
     /\ NamedBitsTaken) =>
    /\ bench.step = "returned"
    /\ bench.state.hold_time = bench.hold_time
    /\ \A a \in 0..63 :
         get_value_of_address(bench.state, a) =
           IF \E n \in DOMAIN bench.named_bits : bench.labels[n] = a
           THEN bench.named_bits[CHOOSE n \in DOMAIN bench.named_bits : bench.labels[n] = a]
           ELSE 0
    /\ (bench.labels = BenchLabels /\ DOMAIN bench.named_bits = {"A"} /\ bench.hold_time = 10) =>
         /\ bench.state = StateInit(PyInt(1), 10)
         /\ get_value_of_address(bench.state, 0) = 1
         /\ get_value_of_address(bench.state, 1) = 0

\* Names with values 0 and 1 have been turned into a state, the last pin set.
C21_Witness ==
  /\ bench.obj = "StateCall" /\ bench.via = "from_labels" /\ bench.step = "returned"
  /\ bench.labels = WideLabels /\ DOMAIN bench.named_bits = {"A", "B"}
  /\ bench.named_bits["A"] = 0 /\ bench.named_bits["B"] = 1
  /\ get_value_of_address(bench.state, 63) = 1 /\ get_value_of_address(bench.state, 5) = 0

\* C22: State.from_labels_array(L, table, hold_times) with N = len(hold_times)
\* raises the length error and returns no state if the tuple of any name has
\* a length other than N; otherwise (L injective into 0..63, names of L,
\* values 0 or 1, hold times in range) it returns exactly N states, state i
\* with pin L[n] = table[n][i] for every name n and hold_time = hold_times[i].
TableTaken ==
  /\ Injective(bench.labels)
  /\ \A k \in DOMAIN bench.labels : bench.labels[k] \in 0..63
  /\ DOMAIN bench.named_bits \subseteq DOMAIN bench.labels
  /\ \A k \in DOMAIN bench.named_bits :
       \A i \in 1..Len(bench.named_bits[k]) : bench.named_bits[k][i] \in {0, 1}
  /\ \A i \in 1..Len(bench.hold_times) : bench.hold_times[i] \in 0..16777215

C22_TableConstruction ==
  (bench.obj = "StatesCall" /\ bench.step # "args") =>
    LET N == Len(bench.hold_times)
    IN IF \E n \in DOMAIN bench.named_bits : Len(bench.named_bits[n]) # N
       THEN /\ bench.step = "raised" /\ raised.kind = "length"
            /\ raised.args[3] = N /\ Len(bench.named_bits[raised.args[1]]) = raised.args[2]
            /\ raised.args[2] # N
            /\ bench.states = <<>>
       ELSE TableTaken =>
              /\ bench.step = "returned" /\ raised = NoError
              /\ Len(bench.states) = N
              /\ \A i \in 1..N :
                   /\ bench.states[i].hold_time = bench.hold_times[i]
                   /\ \A n \in DOMAIN bench.named_bits :
                        get_value_of_address(bench.states[i], bench.labels[n]) =
                          bench.named_bits[n][i]

\* A table of two names over two states has been turned into two states.
C22_Witness ==
  /\ bench.obj = "StatesCall" /\ bench.step = "returned"
  /\ Len(bench.states) = 2 /\ DOMAIN bench.named_bits = {"A", "B"}
  /\ bench.states[1] # bench.states[2]

\* C23: Labels(mapping) raises if and only if two names of mapping have the
\* same address, the error then names every name that shares its address with
\* another name, and the labels of every Labels constructed are injective.
Offending(mapping) ==
  {k \in DOMAIN mapping : \E k2 \in DOMAIN mapping : k2 # k /\ mapping[k2] = mapping[k]}

C23_AllOffendingNamed ==
  (bench.obj = "LabelsCall" /\ bench.step # "args") =>
    /\ bench.step = "raised" <=> ~Injective(bench.mapping)
    /\ bench.step = "returned" => (bench.labels = bench.mapping /\ Injective(bench.labels))
    /\ bench.step = "raised" =>
         /\ raised.kind = "repeated"
         /\ {raised.args[i][1] : i \in 1..Len(raised.args)} = Offending(bench.mapping)

\* C24: once build() has returned a program, no add_mode on the builder and no
\* add_state or add_states on a registered mode changes the program's codes,
\* its address map or the names mode_names() returns, and every name that
\* mode_names() returns has an address in the program.
C24_ProgramImmutable ==
  /\ [][program.built =>
          /\ program'.codes = program.codes
          /\ program'.address_map = program.address_map
          /\ ProgramModeNames' = ProgramModeNames]_vars
  /\ [](program.built =>
          \A i \in 1..Len(ProgramModeNames) : HasAddress(ProgramModeNames[i]))

\* C26: in a compiled program every mode has an address of at most 1022, so
\* the address 0x3FF in a header is not the address of a registered mode: a
\* parent_address field of 0x3FF is that of a mode without parent and a
\* next_address field of 0x3FF that of a mode without next mode.
C26_SentinelNoAddress ==
  program.built =>
    \A i \in 1..Len(modes) :
      /\ address_of(modes[i].name) \in 0..1022
      /\ address_of(modes[i].name) # invalid_mode
      /\ Field(Word(address_of(modes[i].name)), 0, 16) = 1023 <=> ~is_nested(modes[i])
      /\ Field(Word(address_of(modes[i].name)), 16, 16) = 1023 =>
           modes[i].next_mode_name = None

\* A compiled program whose last word, at address 1022, is the header of a
\* mode that refers to itself.
C26_Witness ==
  /\ program.built /\ Len(modes) = 2
  /\ address_of("M2") = 1022 /\ modes[2].next_mode_name = "M2"
  /\ Field(Word(1022), 16, 16) = 1022

\* C27: a program of a single mode that refers to itself compiles if and only
\* if the mode has at most 1022 states, and no compiled program has a mode of
\* 1023 states, the number add_state fills a mode to.
C27_LimitVersusCapacity ==
  /\ [](program.built => \A i \in 1..Len(modes) : Len(modes[i].states) <= 1022)
  /\ [][(/\ Len(modes) = 1 /\ modes[1].next_mode_name = modes[1].name
         /\ ~program.built /\ Build)
          => (program'.built <=> Len(modes[1].states) <= 1022)]_vars

\* The single mode filled to 1023 states has been refused by build().
C27_Witness ==
  /\ raised.kind = "memory" /\ ~program.built
  /\ Len(modes) = 1 /\ Len(modes[1].states) = 1023

\* C28: add_states(seq) on a mode of k states with k + len(seq) > 1023 raises
\* and leaves the mode with its states followed by the first 1023 - k states
\* of seq, 1023 states in all.
C28_AddStatesPartial ==
  [][(/\ Len(modes[1].states) + Len(CapStatesIn) > 1023
      /\ AddStates(1, CapStatesIn))
       => /\ raised'.kind = "states"
          /\ Len(modes'[1].states) = 1023
          /\ modes'[1].states =
               modes[1].states \o SubSeq(CapStatesIn, 1, 1023 - Len(modes[1].states))]_vars

\* add_states has raised on its second state, the first one added as the
\* 1023rd of the mode.
C28_Witness ==
  /\ raised.kind = "states" /\ Len(modes[1].states) = 1023
  /\ modes[1].states[1023] = CapStatesIn[1]

\* C25: in the run plot() simulates, a pass over a mode with n_loops L > 0
\* shows its states L times and goes on to its next mode; a nested mode with
\* nested_loops N goes back to its parent instead the first N times and then
\* on to its next mode; a mode with n_loops 0 ends the run.
C25_LoopSemantics ==
  [][PlotPass =>
       LET m == get_mode(modes, bench.next_mode)
           L == m.n_loops
       IN IF L = 0 THEN bench'.step = "done"
          ELSE L > 0 =>
                /\ bench'.step = "loop"
                /\ bench'.shown = <<m.name, L>>
                /\ bench'.tot_time = bench.tot_time + L * ModeTime(m, Len(m.states))
                /\ bench'.next_mode =
                     IF is_nested(m) /\ bench.nested_count < m.nested_loops
                     THEN m.parent_mode_name ELSE m.next_mode_name]_vars

\* C29: for every compiled program, start_mode and max_cycles the loop of
\* plot() that selects the modes comes to an end (or raises for a name that
\* is not in the program).
C29_PlotTerminates == <>(bench.step \in {"done", "raised"})

\* The k-th 32-bit word of a line of bytecode (k from 0), read in the
\* configured order.
LineWord(line, k) ==
  Norm(FALSE, Oriented(bench.endianess, SubSeq(line, 4 * k + 1, 4 * k + 4)))

\* A line begins with the marker and is for a module, with a header byte.
IsInstruction(line, module, header) ==
  /\ Len(line) >= 16
  /\ LineWord(line, 0) = PyInt(init_word)
  /\ LineWord(line, 1) = PyInt(module)
  /\ AsInt(Shr(LineWord(line, 3), 24)) = header

IsMemoryWrite(line) == IsInstruction(line, seq_mod_index, 0) /\ LineWord(line, 2) = PyInt(3)

IsSequencerEnable(line) == IsInstruction(line, seq_mod_index, 2)

\* The line switches a regulator on (TRUE) or off (FALSE).
IsRegulator(line, regulator, pwrOn) ==
  /\ IsInstruction(line, pwr_mod_index, regulator_headers[regulator])
  /\ BitAnd(LineWord(line, 3), PyInt(Pow2(24) - 1)) = PyInt(IF pwrOn THEN Pow2(16) ELSE 0)

\* The data a memory write carries: every word after the address, most
\* significant first.
RECURSIVE WordsValue(_, _, _)
WordsValue(line, k, n) ==
  IF n = 0 THEN PyInt(0)
  ELSE BitOr(Shl(WordsValue(line, k, n - 1), 32), LineWord(line, k + n - 1))

MemoryWriteData(line) == WordsValue(line, 4, (Len(line) \div 4) - 4)

\* C30: get_configuration_bytecode raises unless compile_configured_program
\* was called; otherwise, in the list it returns, every write of the
\* sequencer memory comes before the command that enables the sequencer, the
\* i-th write is to address i and carries word i of the compiled program, and
\* bias_hv, bias_lv and clocks are switched off by the first three commands
\* and on by the last three only.
C30_ConfigurationOrder ==
  (bench.obj = "CCD" /\ bench.step \in {"returned", "raised"}) =>
    /\ bench.step = "raised" <=> ~bench.has_program
    /\ bench.step = "returned" =>
         LET lines == bench.bytecode_lines
             n == Len(lines)
             writes == {k \in 1..n : IsMemoryWrite(lines[k])}
             first == CHOOSE k \in writes : \A j \in writes : k <= j
         IN /\ \A k \in writes, j \in 1..n : IsSequencerEnable(lines[j]) => k < j
            /\ \E j \in 1..n : IsSequencerEnable(lines[j])
            /\ Cardinality(writes) = Len(program.codes)
            /\ \A k \in writes :
                 /\ LineWord(lines[k], 3) = PyInt(k - first)
                 /\ MemoryWriteData(lines[k]) = program.codes[k - first + 1]
            /\ IsRegulator(lines[1], "bias_hv", FALSE)
            /\ IsRegulator(lines[2], "bias_lv", FALSE)
            /\ IsRegulator(lines[3], "clocks", FALSE)
            /\ IsRegulator(lines[n - 2], "bias_hv", TRUE)
            /\ IsRegulator(lines[n - 1], "bias_lv", TRUE)
            /\ IsRegulator(lines[n], "clocks", TRUE)
            /\ \A k \in 1..(n - 3), r \in {"bias_hv", "bias_lv", "clocks"} :
                 ~IsRegulator(lines[k], r, TRUE)

=============================================================================
